---- MODULE Spec2Model ----
(***************************************************************************)
(* Find-in-transcript engine of the log viewer: the data-level match count *)
(* and resolution of LiveVirtualList (countMatchesInData, goToMatchImpl),  *)
(* the visibility wait (scrollToMatch / rangeChanged), the find            *)
(* coordinator (ExtendedFindContext) and the find band (FindBand).         *)
(*                                                                         *)
(* Text is a sequence of one-character strings.  Item indices are 0-based  *)
(* as in the source; item i of a panel is data[p][i + 1].                  *)
(***************************************************************************)
EXTENDS Integers, Sequences, FiniteSets, TLC

(***************************************************************************)
(* Strings                                                                 *)
(***************************************************************************)

\* String.prototype.toLowerCase on one character of the model's alphabet.
LowerChar(c) ==
  IF c = "A" THEN "a" ELSE IF c = "B" THEN "b" ELSE c

ToLowerCase(s) == [j \in 1..Len(s) |-> LowerChar(s[j])]

\* pat occurs in text at 0-based position p
OccursAt(text, pat, p) ==
  /\ p >= 0
  /\ p + Len(pat) <= Len(text)
  /\ \A j \in 1..Len(pat) : text[p + j] = pat[j]

\* String.prototype.indexOf(pat, pos): the least position >= pos, or -1.
IndexOf(text, pat, pos) ==
  LET hits == {p \in pos..Len(text) : OccursAt(text, pat, p)}
  IN IF hits = {} THEN -1 ELSE CHOOSE p \in hits : \A r \in hits : p <= r

\* String.prototype.includes
Includes(text, pat) == IndexOf(text, pat, 0) # -1

\* text.replace(/"/g, by)
RECURSIVE ReplaceQuotes(_, _)
ReplaceQuotes(s, by) ==
  IF s = << >> THEN << >>
  ELSE (IF Head(s) = "\"" THEN by ELSE <<Head(s)>>) \o ReplaceQuotes(Tail(s), by)

\* The scan loop shared by countMatchesInData and goToMatchImpl:
\*   nextPos = lt.indexOf(lower, pos); while (nextPos !== -1) { count++;
\*   pos = nextPos + lower.length; nextPos = lt.indexOf(lower, pos) }
\* a slip: the scan resumes one character after the start of an occurrence
RECURSIVE ScanFrom_Overlap(_, _, _)
ScanFrom_Overlap(lt, lower, pos) ==
  LET nextPos == IndexOf(lt, lower, pos)
  IN IF nextPos = -1 THEN 0 ELSE 1 + ScanFrom_Overlap(lt, lower, nextPos + 1)

RECURSIVE ScanFrom(_, _, _)
ScanFrom(lt, lower, pos) ==
  LET nextPos == IndexOf(lt, lower, pos)
  IN IF nextPos = -1 THEN 0 ELSE 1 + ScanFrom(lt, lower, nextPos + Len(lower))

ScanText(text, lower) == ScanFrom(ToLowerCase(text), lower, 0)

\* searchUtils.countMatches: the text is the (already lowercased) DOM text.
countMatches(searchableText, term) == ScanFrom(searchableText, ToLowerCase(term), 0)

\* null / undefined of an object-valued reference
Null == [null |-> TRUE]

\* searchUtils.findNthMatch: [globalStart, globalEnd] or Null

\* a slip: the occurrences are numbered from 0
RECURSIVE FindNthFrom_ZeroBased(_, _, _, _, _)
FindNthFrom_ZeroBased(text, lower, n, pos, count) ==
  LET p == IndexOf(text, lower, pos)
  IN IF p = -1 THEN Null
     ELSE IF count = n THEN [globalStart |-> p, globalEnd |-> p + Len(lower)]
     ELSE FindNthFrom_ZeroBased(text, lower, n, p + Len(lower), count + 1)

RECURSIVE FindNthFrom(_, _, _, _, _)
FindNthFrom(text, lower, n, pos, count) ==
  LET p == IndexOf(text, lower, pos)
  IN IF p = -1 THEN Null
     ELSE IF count + 1 = n THEN [globalStart |-> p, globalEnd |-> p + Len(lower)]
     ELSE FindNthFrom(text, lower, n, p + Len(lower), count + 1)

findNthMatch(text, term, n) == FindNthFrom(text, ToLowerCase(term), n, 0, 0)

\* prepareSearchTerm
prepareSearchTerm(term) ==
  LET lower == ToLowerCase(term)
  IN IF (\A j \in 1..Len(term) : term[j] # "\"" /\ term[j] # ":")
     THEN [simple |-> lower, unquoted |-> << >>, jsonEscaped |-> << >>]
     ELSE [simple |-> lower,
           unquoted |-> ReplaceQuotes(lower, << >>),
           jsonEscaped |-> ReplaceQuotes(lower, <<"\\", "\"">>)]

\* searchInText: an absent or empty variation is falsy and is skipped
searchInText(text, searchTerm) ==
  LET lowerText == ToLowerCase(text)
      prepared == prepareSearchTerm(searchTerm)
  IN \/ Includes(lowerText, prepared.simple)
     \/ prepared.unquoted # << >> /\ Includes(lowerText, prepared.unquoted)
     \/ prepared.jsonEscaped # << >> /\ Includes(lowerText, prepared.jsonEscaped)

\* An item is the array its itemSearchText returns.
searchInItem(item, searchTerm) ==
  \E s \in 1..Len(item) : searchInText(item[s], searchTerm)

RECURSIVE SumSeq(_)
SumSeq(s) == IF s = << >> THEN 0 ELSE Head(s) + SumSeq(Tail(s))

\* the inner loop over textArray: matches of one item
MatchesInItem(item, lower) ==
  SumSeq([s \in 1..Len(item) |-> ScanText(item[s], lower)])

RECURSIVE Concat(_)
Concat(item) == IF item = << >> THEN << >> ELSE Head(item) \o Concat(Tail(item))

\* a slip: the strings of an item are joined before they are scanned
countMatchesInData_Joined(items, term) ==
  IF term = << >> \/ Len(items) = 0 THEN 0
  ELSE SumSeq([i \in 1..Len(items) |-> ScanText(Concat(items[i]), ToLowerCase(term))])

\* countMatchesInData of a panel whose data is items
countMatchesInData(items, term) ==
  IF term = << >> \/ Len(items) = 0 THEN 0
  ELSE SumSeq([i \in 1..Len(items) |-> MatchesInItem(items[i], ToLowerCase(term))])

(***************************************************************************)
(* goToMatchImpl, phase 1: the data-level walk                             *)
(***************************************************************************)

NotFound == [targetIdx |-> -1, occurrenceInItem |-> 0]

\* a slip: ">" for ">=", the last occurrence of an item falls to the next item
RECURSIVE Phase1Walk_Strict(_, _, _, _, _)
Phase1Walk_Strict(items, term, absoluteIndex, i, cumulative) ==
  IF i >= Len(items) THEN NotFound
  ELSE IF ~searchInItem(items[i + 1], term)
       THEN Phase1Walk_Strict(items, term, absoluteIndex, i + 1, cumulative)
  ELSE LET matchesInItem == MatchesInItem(items[i + 1], ToLowerCase(term))
       IN IF cumulative + matchesInItem > absoluteIndex
          THEN [targetIdx |-> i, occurrenceInItem |-> absoluteIndex - cumulative]
          ELSE Phase1Walk_Strict(items, term, absoluteIndex, i + 1,
                                 cumulative + matchesInItem)

\* a slip: the occurrence is not made relative to the item
RECURSIVE Phase1Walk_Absolute(_, _, _, _, _)
Phase1Walk_Absolute(items, term, absoluteIndex, i, cumulative) ==
  IF i >= Len(items) THEN NotFound
  ELSE IF ~searchInItem(items[i + 1], term)
       THEN Phase1Walk_Absolute(items, term, absoluteIndex, i + 1, cumulative)
  ELSE LET matchesInItem == MatchesInItem(items[i + 1], ToLowerCase(term))
       IN IF cumulative + matchesInItem >= absoluteIndex
          THEN [targetIdx |-> i, occurrenceInItem |-> absoluteIndex]
          ELSE Phase1Walk_Absolute(items, term, absoluteIndex, i + 1,
                                   cumulative + matchesInItem)

\* a slip: an item that passes searchInItem counts for at least one match
RECURSIVE Phase1Walk_Lenient(_, _, _, _, _)
Phase1Walk_Lenient(items, term, absoluteIndex, i, cumulative) ==
  IF i >= Len(items) THEN NotFound
  ELSE IF ~searchInItem(items[i + 1], term)
       THEN Phase1Walk_Lenient(items, term, absoluteIndex, i + 1, cumulative)
  ELSE LET scanned == MatchesInItem(items[i + 1], ToLowerCase(term))
           matchesInItem == IF scanned = 0 THEN 1 ELSE scanned
       IN IF cumulative + matchesInItem >= absoluteIndex
          THEN [targetIdx |-> i, occurrenceInItem |-> absoluteIndex - cumulative]
          ELSE Phase1Walk_Lenient(items, term, absoluteIndex, i + 1,
                                  cumulative + matchesInItem)

RECURSIVE Phase1Walk(_, _, _, _, _)
Phase1Walk(items, term, absoluteIndex, i, cumulative) ==
  IF i >= Len(items) THEN NotFound
  ELSE IF ~searchInItem(items[i + 1], term)
       THEN Phase1Walk(items, term, absoluteIndex, i + 1, cumulative)
  ELSE LET matchesInItem == MatchesInItem(items[i + 1], ToLowerCase(term))
       IN IF cumulative + matchesInItem >= absoluteIndex
          THEN [targetIdx |-> i, occurrenceInItem |-> absoluteIndex - cumulative]
          ELSE Phase1Walk(items, term, absoluteIndex, i + 1, cumulative + matchesInItem)

Phase1(items, term, absoluteIndex) == Phase1Walk(items, term, absoluteIndex, 0, 0)

\* a slip: the absolute index is not checked
Rejected_AnyIndex(items, term, absoluteIndex) ==
  Len(items) = 0 \/ term = << >>

\* the guard of goToMatchImpl: if (!data.length || !term || absoluteIndex < 1) return false
Rejected(items, term, absoluteIndex) ==
  Len(items) = 0 \/ term = << >> \/ absoluteIndex < 1

\* a slip: phase 2 looks for the next item from the start of the data
NextCandidate_FromStart(items, term, i) ==
  LET other == {j \in 0..(Len(items) - 1) : j # i /\ searchInItem(items[j + 1], term)}
  IN IF other = {} THEN -1 ELSE CHOOSE j \in other : \A r \in other : j <= r

\* phase 2: the next index above i that the loop does not skip, or -1
NextCandidate(items, term, i) ==
  LET later == {j \in (i + 1)..(Len(items) - 1) : searchInItem(items[j + 1], term)}
  IN IF later = {} THEN -1 ELSE CHOOSE j \in later : \A r \in later : j <= r

(***************************************************************************)
(* Inputs: terms, items, rendered text                                     *)
(***************************************************************************)

tEmpty == << >>
tA     == <<"a">>
tQA    == <<"\"", "a">>

\* what the user can type into the find box
BoxTerms == {tEmpty, tA, tQA}
\* terms the pure operators are evaluated on
AllTerms == BoxTerms \cup {<<"a", "a">>, <<"A">>, <<"b">>, <<"z">>}

\* items (the string arrays returned by itemSearchText)
itQuoted == << <<"\"", "a">>, <<"a", "\"", "A">> >>   \* "a" 3 times, "\"a" twice
itA      == << <<"A">> >>
itNone   == << <<"b">> >>
itQ1     == << <<"\"", "a">> >>

\* The text buildSearchableText extracts from the mounted panel of an item:
\* lowercased; "full" shows every string, each in its own block between
\* unsearchable chrome, "collapsed" shows only the first string (the title).
RECURSIVE JoinLines(_)
JoinLines(item) ==
  IF item = << >> THEN << >>
  ELSE IF Len(item) = 1 THEN ToLowerCase(item[1])
  ELSE ToLowerCase(item[1]) \o <<"\n">> \o JoinLines(Tail(item))

Rendered(item, mode) ==
  IF mode = "full" THEN JoinLines(item)
  ELSE IF item = << >> THEN << >> ELSE ToLowerCase(item[1])

\* The transcripts the model runs on: per panel, the items and how each renders.
Configs ==
  { [data |-> << <<itQuoted, itA, itQ1>>, << >> >>,
     mode |-> << <<"collapsed", "full", "full">>, << >> >>],
    [data |-> << <<itNone, itA>>, <<itA>> >>,
     mode |-> << <<"full", "full">>, <<"full">> >>] }

Panels == {1, 2}

(***************************************************************************)
(* Bounds                                                                  *)
(***************************************************************************)

VisibleSize == 1     \* items in the visible range
MaxSearches == 2     \* Spec: handleSearch calls in one run
MaxSettled  == 3     \* SpecSettled: handleSearch calls in one run
MaxCalls    == 2     \* SpecApi: handleSearch and direct goToMatch calls in one run
MaxRaf      == 2     \* animation-frame callbacks queued at once
MaxRegistry == 3     \* SpecRegistry: entries (emptied ones included) of a registry
MaxRender   == 2     \* SpecRegistry: renders whose functions are registered
MaxFollowSearches == 1   \* SpecFollow: searches of the find band
MaxHeights  == 1     \* SpecFollow: height changes Virtuoso reports per list
MaxAppends  == 1     \* SpecAppend: items appended in one run
MaxK        == 2     \* SpecApi: largest absolute index of a direct goToMatch

\* useState<number | null>(null): the match count label is hidden
NoCount == -1

\* rebuildVisibleHighlights: if (allRanges.length > 500) break
MaxHighlightRanges == 500

(***************************************************************************)
(* State                                                                   *)
(***************************************************************************)

VARIABLES
  data,                 \* [panel -> items]: the data prop of each LiveVirtualList
  dom,                  \* [panel -> text of each item's panel when mounted]
  matchCounters,        \* ExtendedFindProvider.matchCounters, in insertion order
  goToMatchFns,         \* ExtendedFindProvider.goToMatchFns, in insertion order
  visibleRangeRef,      \* [panel -> [startIndex, endIndex]]
  pendingTargetRef,     \* [panel -> Null or [index, nav]] (nav owns resolve)
  currentHighlightRef,  \* [panel -> Null or [panelId, term, occurrence]]
  navTokenRef,          \* [panel -> number]
  activeSearchTermRef,  \* [panel -> term]
  timers,               \* the 2000 ms timeouts of scrollToMatch, oldest first
  rafQueue,             \* requestAnimationFrame callbacks, oldest first
  inFrame,              \* callbacks of the running frame still to run
  navs,                 \* the goToMatch calls issued so far
  cssCurrent,           \* CSS.highlights "find-match-current"
  cssAll,               \* CSS.highlights "find-match-all" ({} when deleted)
  searchBox,            \* the value of the find input
  currentSearchTerm, matchIndexRef, cachedCount, searchIdRef,   \* FindBand refs
  matchCount, currentMatchIndex,                                \* FindBand state
  lastBack,             \* the argument of the latest handleSearch call
  probe,                \* SpecResolve: the term whose absolute indices are resolved
  appended,             \* items the running transcript has appended so far
  unregisterFns,        \* the unregister functions handed out, per registry, each with the
                        \* id and function of its registration; and the one called last
  unmounted,            \* the lists React has unmounted
  orphans,              \* the goToMatch calls that were awaiting a list when it unmounted
  follow,               \* [panel -> live, followOutput, isAutoScrollingRef, the
                        \*  animation frame callbacks heightChanged requested]
  searchText,           \* the event node itemSearchText is called on and its result
  scan,                 \* the string and term handed to the scans, and what they returned
  renderQueue,          \* MarkdownRenderQueue: queue, activeCount and the tasks enqueued
  renderCoordinator,    \* MarkdownRenderCoordinator: its maps, flushScheduled, its callers
  findBand              \* which find band is mounted: the one that calls goToMatch ("live")
                        \* or the older one of FindBand.tsx ("legacy")

bandVars == <<searchBox, currentSearchTerm, matchIndexRef,
              cachedCount, searchIdRef, matchCount, currentMatchIndex, lastBack>>
engineVars == <<pendingTargetRef, currentHighlightRef, navTokenRef,
                activeSearchTermRef, timers, rafQueue, navs, cssCurrent, cssAll>>
fixedVars == <<data, dom, matchCounters, goToMatchFns, probe, appended, unregisterFns,
               unmounted, orphans, follow, searchText, scan, renderQueue,
               renderCoordinator,
              findBand>>
vars == <<fixedVars, visibleRangeRef, inFrame, engineVars, bandVars>>

\* An entry of a registry of the provider: the id of the list and the function
\* it registered, named by the render that created it (the number of items of
\* the data that render was given).  An emptied entry has id 0.
Entry(id, fn) == [id |-> id, fn |-> fn]
Emptied == Entry(0, 0)

\* no unregister function was called since the last registration
NotCalled == [registry |-> "none", id |-> 0, fn |-> 0]

\* the visible ranges Virtuoso can report for a list of n items
Ranges(n) ==
  IF n = 0 THEN {[startIndex |-> 0, endIndex |-> 0]}
  ELSE {[startIndex |-> s, endIndex |-> IF s + VisibleSize > n THEN n - 1
                                         ELSE s + VisibleSize - 1] :
          s \in 0..(IF n > VisibleSize THEN n - VisibleSize ELSE 0)}

\* the range Virtuoso reports after the first render: the top of the list
InitRange(n) == CHOOSE r \in Ranges(n) : r.startIndex = 0

\* everything but the visible range, after construction
InitRefs ==
  /\ matchCounters = [p \in 1..Cardinality(Panels) |-> Entry(p, Len(data[p]))]
  /\ goToMatchFns = [p \in 1..Cardinality(Panels) |-> Entry(p, Len(data[p]))]
  /\ pendingTargetRef = [p \in Panels |-> Null]
  /\ currentHighlightRef = [p \in Panels |-> Null]
  /\ navTokenRef = [p \in Panels |-> 0]
  /\ activeSearchTermRef = [p \in Panels |-> << >>]
  /\ timers = << >>
  /\ rafQueue = << >>
  /\ inFrame = 0
  /\ navs = << >>
  /\ cssCurrent = Null
  /\ cssAll = {}
  /\ searchBox = << >>
  /\ currentSearchTerm = << >>
  /\ matchIndexRef = 0
  /\ cachedCount = [term |-> << >>, count |-> 0]
  /\ searchIdRef = 0
  /\ matchCount = NoCount
  /\ currentMatchIndex = 0
  /\ lastBack = FALSE
  /\ appended = 0
  /\ unregisterFns = [count |-> {Entry(p, Len(data[p])) : p \in Panels},
                      goTo |-> {Entry(p, Len(data[p])) : p \in Panels},
                      called |-> NotCalled]
  /\ unmounted = {}
  /\ orphans = {}

InitRest ==
  /\ InitRefs
  /\ visibleRangeRef = [p \in Panels |-> InitRange(Len(data[p]))]

\* The follow state of a list after its first effects: followOutput is
\* null, then !!live; nothing is scrolling and no height change is reported.
Following(live) ==
  [live |-> live, followOutput |-> live, isAutoScrollingRef |-> FALSE,
   raf |-> << >>, heights |-> 0, bottoms |-> 0]

InitConfig ==
  /\ \E c \in Configs :
       /\ data = [p \in Panels |-> c.data[p]]
       /\ dom = [p \in Panels |->
                   [i \in 1..Len(c.data[p]) |-> Rendered(c.data[p][i], c.mode[p][i])]]
  /\ probe = << >>
  /\ InitRest

\* no event node is being extracted
NoText == [node |-> [event |-> "state"], done |-> TRUE, threw |-> FALSE, texts |-> << >>]

\* no string is being scanned
NoScan ==
  [text |-> << >>, term |-> <<"a">>, n |-> 0, done |-> TRUE,
   count |-> 0, inline |-> 0, nth |-> Null]

\* the render queue after construction
NoRender == [queue |-> << >>, activeCount |-> 0, tasks |-> << >>, cancels |-> 0]

\* the render coordinator after construction
CacheKeys == {"x", "y"}

NoCoordinator ==
  [completedResults |-> [key \in CacheKeys |-> 0],
   pendingCallbacks |-> [key \in CacheKeys |-> 0],
   flushScheduled |-> FALSE, renderCache |-> {}, calls |-> << >>]

\* the transcript of a finished sample
Init ==
  /\ InitConfig
  /\ follow = [p \in Panels |-> Following(FALSE)]
  /\ searchText = NoText
  /\ scan = NoScan
  /\ renderQueue = NoRender
  /\ renderCoordinator = NoCoordinator
  /\ findBand = "live"

(***************************************************************************)
(* The engine: the state goToMatchImpl and its callbacks read and write,   *)
(* threaded through the synchronous code as the record st                  *)
(***************************************************************************)

Cur ==
  [tok |-> navTokenRef, act |-> activeSearchTermRef, pend |-> pendingTargetRef,
   hl |-> currentHighlightRef, timers |-> timers, raf |-> rafQueue,
   navs |-> navs, cur |-> cssCurrent, all |-> cssAll]

Commit(st) ==
  /\ navTokenRef' = st.tok
  /\ activeSearchTermRef' = st.act
  /\ pendingTargetRef' = st.pend
  /\ currentHighlightRef' = st.hl
  /\ timers' = st.timers
  /\ rafQueue' = st.raf
  /\ navs' = st.navs
  /\ cssCurrent' = st.cur
  /\ cssAll' = st.all

InRange(p, index) ==
  index >= visibleRangeRef[p].startIndex /\ index <= visibleRangeRef[p].endIndex

\* document.getElementById("event-panel-" + id) finds the panel of item i
Mounted(p, i) == p \notin unmounted /\ InRange(p, i) /\ i >= 0 /\ i < Len(data[p])

\* countMatchesInPanel
countMatchesInPanel(p, i, term) ==
  IF ~Mounted(p, i) THEN 0 ELSE countMatches(dom[p][i + 1], term)

\* highlightNthOccurrenceInPanel returns true (and sets "find-match-current")
\* when the panel is mounted and findNthMatch finds the occurrence; for a
\* non-empty term createMatchRange then maps both ends and the range is valid.
HighlightFound(p, i, term, occurrence) ==
  Mounted(p, i) /\ findNthMatch(dom[p][i + 1], term, occurrence) # Null

Span(p, i, term, occurrence) ==
  [panelId |-> <<p, i>>, term |-> term, occurrence |-> occurrence]

\* getAllMatchRangesInPanel(panelId, term, excludeOcc)
PanelRanges(p, i, term, excludeOcc) ==
  {Span(p, i, term, o) : o \in {x \in 1..countMatchesInPanel(p, i, term) : x # excludeOcc}}

RECURSIVE CollectRanges(_, _, _, _, _)
CollectRanges(p, term, current, i, allRanges) ==
  IF ~(i <= visibleRangeRef[p].endIndex /\ i < Len(data[p])) THEN allRanges
  ELSE LET excludeOcc == IF current # Null /\ current.panelId = <<p, i>>
                         THEN current.occurrence ELSE 0
           more == allRanges \cup PanelRanges(p, i, term, excludeOcc)
       IN IF Cardinality(more) > MaxHighlightRanges THEN more
          ELSE CollectRanges(p, term, current, i + 1, more)

\* rebuildVisibleHighlights(term, currentOccurrence, currentPanelId)
rebuildVisibleHighlights(st, p, term, current) ==
  IF term = << >> THEN st
  ELSE LET allRanges == CollectRanges(p, term, current, visibleRangeRef[p].startIndex, {})
       IN [st EXCEPT !.all = allRanges]

RafResolve(n, p, index) ==
  [kind |-> "resolve", nav |-> n, panel |-> p, index |-> index,
   term |-> << >>, highlight |-> Null]
RafReanchor(p, term, highlight) ==
  [kind |-> "reanchor", nav |-> 0, panel |-> p, index |-> 0,
   term |-> term, highlight |-> highlight]

\* a slip: the visible range is not consulted
scrollToMatch_AlwaysScroll(st, n, p, index) ==
  [st EXCEPT !.pend[p] = [index |-> index, nav |-> n],
             !.timers = Append(@, [panel |-> p, index |-> index, nav |-> n]),
             !.navs[n].calls = @ + 1,
             !.navs[n].waits = @ + 1,
             !.navs[n].scrolls = @ + 1]

\* scrollToMatch(index), called by navigation n on panel p
scrollToMatch(st, n, p, index) ==
  IF InRange(p, index)
  THEN [st EXCEPT !.raf = Append(@, RafResolve(n, p, index)),
                  !.navs[n].calls = @ + 1,
                  !.navs[n].waits = @ + 1]
  ELSE [st EXCEPT !.pend[p] = [index |-> index, nav |-> n],
                  !.timers = Append(@, [panel |-> p, index |-> index, nav |-> n]),
                  !.navs[n].calls = @ + 1,
                  !.navs[n].waits = @ + 1,
                  !.navs[n].scrolls = @ + 1]

\* ExtendedFindProvider.goToMatch: the loop over goToMatchFns from position
\* pos on, each entry running goToMatchImpl up to its first await.
RECURSIVE EnterPanel(_, _, _)
EnterPanel(st, n, pos) ==
  IF pos > Len(goToMatchFns)
  THEN [st EXCEPT !.navs[n].status = "notfound", !.navs[n].pos = pos]
  ELSE LET p == goToMatchFns[pos].id
           nav == st.navs[n]
       IN IF p = 0 \/ Rejected(data[p], nav.term, nav.k) THEN EnterPanel(st, n, pos + 1)
          ELSE LET thisNav == st.tok[p] + 1
                   st1 == [st EXCEPT !.tok[p] = thisNav, !.act[p] = nav.term]
                   r == Phase1(data[p], nav.term, nav.k)
               IN IF r.targetIdx = -1 THEN EnterPanel(st1, n, pos + 1)
                  ELSE scrollToMatch(
                         [st1 EXCEPT !.navs[n] =
                            [@ EXCEPT !.pos = pos, !.panel = p, !.token = thisNav,
                                      !.waits = 0,
                                      !.i = r.targetIdx,
                                      !.occ = r.occurrenceInItem,
                                      !.targetIdx = r.targetIdx,
                                      !.occurrenceInItem = r.occurrenceInItem]],
                         n, p, r.targetIdx)

\* a slip: the navigation token is not compared after the wait
Continue_NoToken(st, n) ==
  LET nav == st.navs[n]
      p == nav.panel
      domMatches == countMatchesInPanel(p, nav.i, nav.term)
  IN IF nav.occ <= domMatches /\ HighlightFound(p, nav.i, nav.term, nav.occ)
     THEN LET current == Span(p, nav.i, nav.term, nav.occ)
              st1 == [st EXCEPT !.cur = current, !.hl[p] = current,
                                !.navs[n].status = "found"]
          IN rebuildVisibleHighlights(st1, p, nav.term, current)
     ELSE LET j == NextCandidate(data[p], nav.term, nav.i)
              st1 == [st EXCEPT !.navs[n].occ = nav.occ - domMatches]
          IN IF j = -1 THEN EnterPanel(st1, n, nav.pos + 1)
             ELSE scrollToMatch([st1 EXCEPT !.navs[n].i = j], n, p, j)

\* a slip: the rendered matches of a skipped item are not taken off the budget
Continue_KeepBudget(st, n) ==
  LET nav == st.navs[n]
      p == nav.panel
  IN IF st.tok[p] # nav.token THEN EnterPanel(st, n, nav.pos + 1)
     ELSE LET domMatches == countMatchesInPanel(p, nav.i, nav.term)
          IN IF nav.occ <= domMatches /\ HighlightFound(p, nav.i, nav.term, nav.occ)
             THEN LET current == Span(p, nav.i, nav.term, nav.occ)
                      st1 == [st EXCEPT !.cur = current, !.hl[p] = current,
                                        !.navs[n].status = "found"]
                  IN rebuildVisibleHighlights(st1, p, nav.term, current)
             ELSE LET j == NextCandidate(data[p], nav.term, nav.i)
                  IN IF j = -1 THEN EnterPanel(st, n, nav.pos + 1)
                     ELSE scrollToMatch([st EXCEPT !.navs[n].i = j], n, p, j)

\* goToMatchImpl after "await scrollToMatch(i)" of navigation n
Continue(st, n) ==
  LET nav == st.navs[n]
      p == nav.panel
  IN IF st.tok[p] # nav.token THEN EnterPanel(st, n, nav.pos + 1)
     ELSE LET domMatches == countMatchesInPanel(p, nav.i, nav.term)
          IN IF nav.occ <= domMatches /\ HighlightFound(p, nav.i, nav.term, nav.occ)
             THEN LET current == Span(p, nav.i, nav.term, nav.occ)
                      st1 == [st EXCEPT !.cur = current, !.hl[p] = current,
                                        !.navs[n].status = "found"]
                  IN rebuildVisibleHighlights(st1, p, nav.term, current)
             ELSE LET j == NextCandidate(data[p], nav.term, nav.i)
                      st1 == [st EXCEPT !.navs[n].occ = nav.occ - domMatches]
                  IN IF j = -1 THEN EnterPanel(st1, n, nav.pos + 1)
                     ELSE scrollToMatch([st1 EXCEPT !.navs[n].i = j], n, p, j)

\* resolve() of the promise scrollToMatch(index) returned to navigation n
Resolve(st, n, p, index) ==
  IF st.navs[n].status = "wait" /\ st.navs[n].panel = p /\ st.navs[n].i = index
  THEN Continue(st, n) ELSE st

NewNav(src, term, k) ==
  [src |-> src, term |-> term, k |-> k, pos |-> 0, panel |-> 0, token |-> 0,
   i |-> -1, occ |-> 0, targetIdx |-> -1, occurrenceInItem |-> 0,
   status |-> "wait", calls |-> 0, waits |-> 0, scrolls |-> 0]

\* goToMatch(term, absoluteIndex)
goToMatch(st, src, term, k) ==
  EnterPanel([st EXCEPT !.navs = Append(@, NewNav(src, term, k))],
             Len(st.navs) + 1, 1)

(***************************************************************************)
(* ExtendedFindProvider.countAllMatches                                    *)
(***************************************************************************)

countAllMatches(term) ==
  SumSeq([c \in 1..Len(matchCounters) |->
            IF matchCounters[c] = Emptied THEN 0
            ELSE countMatchesInData(data[matchCounters[c].id], term)])

(***************************************************************************)
(* Actions                                                                 *)
(***************************************************************************)

\* a slip: rangeChanged requests the re-anchoring frame whatever the term is
RangeChanged_Unguarded(p, range) ==
  /\ inFrame = 0
  /\ p \notin unmounted
  /\ range \in Ranges(Len(data[p]))
  /\ range # visibleRangeRef[p]
  /\ LET pending == pendingTargetRef[p]
         hit == /\ pending # Null
                /\ pending.index >= range.startIndex
                /\ pending.index <= range.endIndex
         term == activeSearchTermRef[p]
         q1 == IF hit THEN Append(rafQueue, RafResolve(pending.nav, p, pending.index))
               ELSE rafQueue
         q2 == Append(q1, RafReanchor(p, term, currentHighlightRef[p]))
     IN /\ Len(q2) <= MaxRaf
        /\ visibleRangeRef' = [visibleRangeRef EXCEPT ![p] = range]
        /\ pendingTargetRef' = IF hit THEN [pendingTargetRef EXCEPT ![p] = Null]
                               ELSE pendingTargetRef
        /\ rafQueue' = q2
  /\ UNCHANGED <<fixedVars, inFrame, bandVars, currentHighlightRef, navTokenRef,
                 activeSearchTermRef, timers, navs, cssCurrent, cssAll>>

\* Virtuoso's rangeChanged callback
RangeChanged(p, range) ==
  /\ inFrame = 0
  /\ p \notin unmounted
  /\ range \in Ranges(Len(data[p]))
  /\ range # visibleRangeRef[p]
  /\ LET pending == pendingTargetRef[p]
         hit == /\ pending # Null
                /\ pending.index >= range.startIndex
                /\ pending.index <= range.endIndex
         term == activeSearchTermRef[p]
         q1 == IF hit THEN Append(rafQueue, RafResolve(pending.nav, p, pending.index))
               ELSE rafQueue
         q2 == IF term # << >> THEN Append(q1, RafReanchor(p, term, currentHighlightRef[p]))
               ELSE q1
     IN /\ Len(q2) <= MaxRaf
        /\ visibleRangeRef' = [visibleRangeRef EXCEPT ![p] = range]
        /\ pendingTargetRef' = IF hit THEN [pendingTargetRef EXCEPT ![p] = Null]
                               ELSE pendingTargetRef
        /\ rafQueue' = q2
  /\ UNCHANGED <<fixedVars, inFrame, bandVars, currentHighlightRef, navTokenRef,
                 activeSearchTermRef, timers, navs, cssCurrent, cssAll>>

\* a slip: a wait that ends by its timeout ends the navigation
TimerFire_Abort ==
  /\ inFrame = 0
  /\ timers # << >>
  /\ LET t == Head(timers)
         st0 == [Cur EXCEPT !.timers = Tail(timers)]
     IN IF st0.pend[t.panel] # Null /\ st0.pend[t.panel].index = t.index
        THEN Commit([st0 EXCEPT !.pend[t.panel] = Null,
                                !.navs[t.nav].status =
                                   IF @ = "wait" THEN "notfound" ELSE @])
        ELSE Commit(st0)
  /\ UNCHANGED <<fixedVars, visibleRangeRef, inFrame, bandVars>>

\* the setTimeout(..., 2000) callback of the oldest scrollToMatch call
TimerFire ==
  /\ inFrame = 0
  /\ timers # << >>
  /\ LET t == Head(timers)
         st0 == [Cur EXCEPT !.timers = Tail(timers)]
     IN IF st0.pend[t.panel] # Null /\ st0.pend[t.panel].index = t.index
        THEN Commit(Resolve([st0 EXCEPT !.pend[t.panel] = Null], t.nav, t.panel, t.index))
        ELSE Commit(st0)
  /\ UNCHANGED <<fixedVars, visibleRangeRef, inFrame, bandVars>>

\* the callback rangeChanged queued to re-anchor the highlights
Reanchor(st, cb) ==
  LET highlight == cb.highlight
      st1 == IF /\ highlight # Null
                /\ Mounted(highlight.panelId[1], highlight.panelId[2])
                /\ HighlightFound(highlight.panelId[1], highlight.panelId[2],
                                  highlight.term, highlight.occurrence)
             THEN [st EXCEPT !.cur = highlight] ELSE st
  IN rebuildVisibleHighlights(st1, cb.panel, cb.term, highlight)

\* one callback of an animation frame; a frame runs, in order, the callbacks
\* that were queued when it began, and nothing else runs in between
Frame ==
  /\ rafQueue # << >>
  /\ inFrame' = (IF inFrame = 0 THEN Len(rafQueue) ELSE inFrame) - 1
  /\ LET cb == Head(rafQueue)
         st0 == [Cur EXCEPT !.raf = Tail(rafQueue)]
     IN IF cb.kind = "resolve" THEN Commit(Resolve(st0, cb.nav, cb.panel, cb.index))
        ELSE Commit(Reanchor(st0, cb))
  /\ UNCHANGED <<fixedVars, visibleRangeRef, bandVars>>

\* a slip: the index is stepped without wrapping
NewIndex_NoWrap(isNewTerm, back, index, total) ==
  IF isNewTerm THEN 1
  ELSE IF back THEN index - 1
  ELSE index + 1

\* handleSearch: "Compute the target match index"
NewIndex(isNewTerm, back, index, total) ==
  IF isNewTerm THEN 1
  ELSE IF back THEN (IF index <= 1 THEN total ELSE index - 1)
  ELSE (IF index >= total THEN 1 ELSE index + 1)

\* a slip: the 0-based target is stepped without the modulo
LegacyTargetIndex0_NoModulo(termChanged, currentMatchIndexRef, back, total) ==
  IF termChanged \/ currentMatchIndexRef = 0
  THEN (IF back THEN total - 1 ELSE 0)
  ELSE IF back THEN currentMatchIndexRef - 2
  ELSE currentMatchIndexRef

\* the older find band (FindBand.tsx): the 0-based target among the matches
LegacyTargetIndex0(termChanged, currentMatchIndexRef, back, total) ==
  LET prevIndex0 == IF currentMatchIndexRef > 0 THEN currentMatchIndexRef - 1 ELSE -1
  IN IF termChanged \/ prevIndex0 = -1
     THEN (IF back THEN total - 1 ELSE 0)
     ELSE IF back THEN (prevIndex0 - 1 + total) % total
     ELSE (prevIndex0 + 1) % total

\* a slip: the index is shown only once goToMatch has found the match
handleSearch_IndexAfter(searchTerm, back) ==
  /\ searchIdRef' = searchIdRef + 1
  /\ lastBack' = back
  /\ LET total == IF cachedCount.term = searchTerm THEN cachedCount.count
                  ELSE countAllMatches(searchTerm)
         isNewTerm == currentSearchTerm # searchTerm
         newIndex == NewIndex(isNewTerm, back, matchIndexRef, total)
         st == goToMatch(Cur, "band", searchTerm, newIndex)
         shown == IF st.navs[Len(st.navs)].status = "notfound"
                  THEN currentMatchIndex ELSE newIndex
     IN IF searchTerm = << >>
        THEN /\ Commit([Cur EXCEPT !.all = {}, !.cur = Null])
             /\ matchCount' = NoCount
             /\ currentMatchIndex' = 0
             /\ matchIndexRef' = 0
             /\ currentSearchTerm' = << >>
             /\ UNCHANGED cachedCount
        ELSE /\ cachedCount' = [term |-> searchTerm, count |-> total]
             /\ matchCount' = total
             /\ currentSearchTerm' = searchTerm
             /\ IF total = 0
                THEN /\ Commit([Cur EXCEPT !.all = {}, !.cur = Null])
                     /\ currentMatchIndex' = 0
                     /\ matchIndexRef' = 0
                ELSE /\ matchIndexRef' = shown
                     /\ currentMatchIndex' = shown
                     /\ Commit(st)
  /\ UNCHANGED <<fixedVars, visibleRangeRef, inFrame>>

\* FindBand.handleSearch(back), the find input holding searchTerm
handleSearch(searchTerm, back) ==
  /\ searchIdRef' = searchIdRef + 1
  /\ lastBack' = back
  /\ LET total == IF cachedCount.term = searchTerm THEN cachedCount.count
                  ELSE countAllMatches(searchTerm)
         isNewTerm == currentSearchTerm # searchTerm
         newIndex == NewIndex(isNewTerm, back, matchIndexRef, total)
     IN IF searchTerm = << >>
        THEN /\ Commit([Cur EXCEPT !.all = {}, !.cur = Null])
             /\ matchCount' = NoCount
             /\ currentMatchIndex' = 0
             /\ matchIndexRef' = 0
             /\ currentSearchTerm' = << >>
             /\ UNCHANGED cachedCount
        ELSE /\ cachedCount' = [term |-> searchTerm, count |-> total]
             /\ matchCount' = total
             /\ currentSearchTerm' = searchTerm
             /\ IF total = 0
                THEN /\ Commit([Cur EXCEPT !.all = {}, !.cur = Null])
                     /\ currentMatchIndex' = 0
                     /\ matchIndexRef' = 0
                ELSE /\ matchIndexRef' = newIndex
                     /\ currentMatchIndex' = newIndex
                     /\ Commit(goToMatch(Cur, "band", searchTerm, newIndex))
  /\ UNCHANGED <<fixedVars, visibleRangeRef, inFrame>>

\* the user edits the find input and the debounced search (100 ms) runs:
\* handleSearch(false) on the new value
Type(term) ==
  /\ inFrame = 0
  /\ term \in BoxTerms
  /\ term # searchBox
  /\ searchBox' = term
  /\ handleSearch(term, FALSE)

\* Enter, F3, Ctrl+G or the next / previous buttons
Press(back) ==
  /\ inFrame = 0
  /\ handleSearch(searchBox, back)
  /\ UNCHANGED searchBox

\* a caller of useExtendedFind().goToMatch other than the find band
GoToMatchDirect(term, k) ==
  /\ inFrame = 0
  /\ Commit(goToMatch(Cur, "direct", term, k))
  /\ UNCHANGED <<fixedVars, visibleRangeRef, inFrame, bandVars>>

EngineNext ==
  \/ \E p \in Panels : \E range \in Ranges(Len(data[p])) : RangeChanged(p, range)
  \/ TimerFire
  \/ Frame

\* The find band drives the engine.
Next ==
  \/ EngineNext
  \/ /\ searchIdRef < MaxSearches
     /\ \/ \E term \in BoxTerms : Type(term)
        \/ \E back \in BOOLEAN : Press(back)

Spec == Init /\ [][Next]_vars

\* The find band and other callers of goToMatch drive the engine.
DirectCalls == Cardinality({n \in 1..Len(navs) : navs[n].src = "direct"})

NextApi ==
  \/ EngineNext
  \/ /\ searchIdRef + DirectCalls < MaxCalls
     /\ \/ \E term \in BoxTerms : Type(term)
        \/ \E back \in BOOLEAN : Press(back)
        \/ \E term \in BoxTerms : \E k \in 0..MaxK : GoToMatchDirect(term, k)

SpecApi == Init /\ [][NextApi]_vars

\* Map.delete(id) on a registry: the entry is emptied; iterators that are
\* running keep their place, new ones skip it
MapDelete(reg, id) == [c \in 1..Len(reg) |-> IF reg[c].id = id THEN Emptied ELSE reg[c]]

\* a slip: the function is pushed on a list instead of set in a map
MapSet_Push(reg, id, fn) == Append(reg, Entry(id, fn))

\* Map.set(id, fn): an id already present keeps its place and gets the new
\* function, a new id goes last
MapSet(reg, id, fn) ==
  IF \E c \in 1..Len(reg) : reg[c].id = id
  THEN [c \in 1..Len(reg) |-> IF reg[c].id = id THEN Entry(id, fn) ELSE reg[c]]
  ELSE Append(reg, Entry(id, fn))

\* A running transcript delivers one more event: the data prop of list p grows,
\* countMatchesInData and goToMatchImpl are created anew for it, and the
\* registration effect runs its cleanup and registers them again.
AppendItem(p, item) ==
  /\ inFrame = 0
  /\ p \notin unmounted
  /\ \A n \in 1..Len(navs) : navs[n].status # "wait"
  /\ appended < MaxAppends
  /\ appended' = appended + 1
  /\ data' = [data EXCEPT ![p] = Append(@, item)]
  /\ dom' = [dom EXCEPT ![p] = Append(@, Rendered(item, "full"))]
  /\ matchCounters' = MapSet(MapDelete(matchCounters, p), p, Len(data'[p]))
  /\ goToMatchFns' = MapSet(MapDelete(goToMatchFns, p), p, Len(data'[p]))
  /\ UNCHANGED <<probe, renderCoordinator, findBand, scan, renderQueue, unregisterFns, unmounted, orphans, follow, searchText,
                 visibleRangeRef, inFrame, engineVars, bandVars>>

\* The find band on a transcript that is still running.
NextAppend ==
  \/ EngineNext
  \/ /\ searchIdRef < MaxSearches
     /\ \/ \E term \in BoxTerms : Type(term)
        \/ \E back \in BOOLEAN : Press(back)
  \/ \E p \in Panels : AppendItem(p, itA)

SpecAppend == Init /\ [][NextAppend]_vars

\* the functions registered: those of the first render (named by the length
\* of the data they close over) and those of later renders
RegisteredFns == {Len(c.data[p]) : c \in Configs, p \in Panels} \cup 1..MaxRender

\* registerMatchCounter(id, countFn), returning the function that unregisters
registerMatchCounter(id, countFn) ==
  /\ Len(MapSet(matchCounters, id, countFn)) <= MaxRegistry
  /\ matchCounters' = MapSet(matchCounters, id, countFn)
  /\ unregisterFns' = [unregisterFns EXCEPT !.count = @ \cup {Entry(id, countFn)},
                                            !.called = NotCalled]
  /\ UNCHANGED <<data, dom, goToMatchFns, probe, renderCoordinator, findBand, scan, renderQueue, appended, unmounted, orphans, follow, searchText,
                 visibleRangeRef, inFrame, engineVars, bandVars>>

\* registerGoToMatch(id, fn), returning the function that unregisters
registerGoToMatch(id, fn) ==
  /\ Len(MapSet(goToMatchFns, id, fn)) <= MaxRegistry
  /\ goToMatchFns' = MapSet(goToMatchFns, id, fn)
  /\ unregisterFns' = [unregisterFns EXCEPT !.goTo = @ \cup {Entry(id, fn)},
                                            !.called = NotCalled]
  /\ UNCHANGED <<data, dom, matchCounters, probe, renderCoordinator, findBand, scan, renderQueue, appended, unmounted, orphans, follow, searchText,
                 visibleRangeRef, inFrame, engineVars, bandVars>>

\* a call of the function registerMatchCounter(id, countFn) returned
unregisterMatchCounter(id, countFn) ==
  /\ Entry(id, countFn) \in unregisterFns.count
  /\ matchCounters' = MapDelete(matchCounters, id)
  /\ unregisterFns' = [unregisterFns EXCEPT
                         !.called = [registry |-> "count", id |-> id, fn |-> countFn]]
  /\ UNCHANGED <<data, dom, goToMatchFns, probe, renderCoordinator, findBand, scan, renderQueue, appended, unmounted, orphans, follow, searchText,
                 visibleRangeRef, inFrame, engineVars, bandVars>>

\* a call of the function registerGoToMatch(id, fn) returned
unregisterGoToMatch(id, fn) ==
  /\ Entry(id, fn) \in unregisterFns.goTo
  /\ goToMatchFns' = MapDelete(goToMatchFns, id)
  /\ unregisterFns' = [unregisterFns EXCEPT
                         !.called = [registry |-> "goTo", id |-> id, fn |-> fn]]
  /\ UNCHANGED <<data, dom, matchCounters, probe, renderCoordinator, findBand, scan, renderQueue, appended, unmounted, orphans, follow, searchText,
                 visibleRangeRef, inFrame, engineVars, bandVars>>

\* The provider's registries under arbitrary calls of its clients.
NextRegistry ==
  \/ \E id \in Panels : \E fn \in 1..MaxRender : registerMatchCounter(id, fn)
  \/ \E id \in Panels : \E fn \in 1..MaxRender : registerGoToMatch(id, fn)
  \/ \E id \in Panels : \E fn \in RegisteredFns : unregisterMatchCounter(id, fn)
  \/ \E id \in Panels : \E fn \in RegisteredFns : unregisterGoToMatch(id, fn)

SpecRegistry == Init /\ [][NextRegistry]_vars

\* React unmounts list p: the cleanup of its registration effect runs, Virtuoso
\* and the panels of its items leave the document; the timers and animation
\* frame callbacks its code requested stay requested.
Unmount(p) ==
  /\ inFrame = 0
  /\ p \notin unmounted
  /\ unmounted' = unmounted \cup {p}
  /\ orphans' = orphans \cup {n \in 1..Len(navs) :
                                navs[n].status = "wait" /\ navs[n].panel = p}
  /\ matchCounters' = MapDelete(matchCounters, p)
  /\ goToMatchFns' = MapDelete(goToMatchFns, p)
  /\ UNCHANGED <<data, dom, probe, renderCoordinator, findBand, scan, renderQueue, appended, unregisterFns, follow, searchText,
                 visibleRangeRef, inFrame, engineVars, bandVars>>

\* The find band on lists that may unmount.
NextUnmount ==
  \/ EngineNext
  \/ /\ searchIdRef < MaxSearches
     /\ \/ \E term \in BoxTerms : Type(term)
        \/ \E back \in BOOLEAN : Press(back)
  \/ \E p \in Panels : Unmount(p)

SpecUnmount == Init /\ [][NextUnmount]_vars

\* heightChanged(height): Virtuoso reports a new total height of list p; the
\* callback it requests closes over followOutput and live of the last render
heightChanged(p) ==
  /\ inFrame = 0
  /\ p \notin unmounted
  /\ follow[p].heights < MaxHeights
  /\ follow' = [follow EXCEPT ![p].heights = @ + 1,
                              ![p].raf = Append(@, [kind |-> "height",
                                                    followOutput |-> follow[p].followOutput,
                                                    live |-> follow[p].live])]
  /\ UNCHANGED <<data, dom, matchCounters, goToMatchFns, probe, renderCoordinator, findBand, scan, renderQueue, appended,
                 unregisterFns, unmounted, orphans, searchText,
                 visibleRangeRef, inFrame, engineVars, bandVars>>

\* the animation frame callbacks of heightChanged: the outer one scrolls the
\* list to the bottom and requests the inner one, which ends the auto scroll
HeightFrame(p) ==
  /\ inFrame = 0
  /\ follow[p].raf # << >>
  /\ LET cb == Head(follow[p].raf)
         rest == Tail(follow[p].raf)
     IN follow' =
          IF cb.kind = "end"
          THEN [follow EXCEPT ![p].raf = rest, ![p].isAutoScrollingRef = FALSE]
          ELSE IF cb.followOutput /\ cb.live /\ p \notin unmounted
          THEN [follow EXCEPT ![p].isAutoScrollingRef = TRUE,
                              ![p].bottoms = @ + 1,
                              ![p].raf = Append(rest, [kind |-> "end",
                                                       followOutput |-> cb.followOutput,
                                                       live |-> cb.live])]
          ELSE [follow EXCEPT ![p].raf = rest]
  /\ UNCHANGED <<data, dom, matchCounters, goToMatchFns, probe, renderCoordinator, findBand, scan, renderQueue, appended,
                 unregisterFns, unmounted, orphans, searchText,
                 visibleRangeRef, inFrame, engineVars, bandVars>>

\* a slip: the scroll handler looks neither at isAutoScrollingRef nor at live
handleScroll_Unguarded(p, isAtBottom) ==
  /\ inFrame = 0
  /\ p \notin unmounted
  /\ isAtBottom # follow[p].followOutput
  /\ follow' = [follow EXCEPT ![p].followOutput = isAtBottom]
  /\ UNCHANGED <<data, dom, matchCounters, goToMatchFns, probe, renderCoordinator, findBand, scan, renderQueue, appended,
                 unregisterFns, unmounted, orphans, searchText,
                 visibleRangeRef, inFrame, engineVars, bandVars>>

\* handleScroll: a scroll event of the scroll parent of list p, isAtBottom
\* being what the geometry of the parent gives
handleScroll(p, isAtBottom) ==
  /\ inFrame = 0
  /\ p \notin unmounted
  /\ ~follow[p].isAutoScrollingRef
  /\ follow[p].live
  /\ isAtBottom # follow[p].followOutput
  /\ follow' = [follow EXCEPT ![p].followOutput = isAtBottom]
  /\ UNCHANGED <<data, dom, matchCounters, goToMatchFns, probe, renderCoordinator, findBand, scan, renderQueue, appended,
                 unregisterFns, unmounted, orphans, searchText,
                 visibleRangeRef, inFrame, engineVars, bandVars>>

\* the transcript of a running sample
InitLive ==
  /\ InitConfig
  /\ follow = [p \in Panels |-> Following(TRUE)]
  /\ searchText = NoText
  /\ scan = NoScan
  /\ renderQueue = NoRender
  /\ renderCoordinator = NoCoordinator
  /\ findBand = "live"

\* The find band on a running transcript that follows its output.
NextFollow ==
  \/ EngineNext
  \/ /\ searchIdRef < MaxFollowSearches
     /\ \/ \E term \in BoxTerms : Type(term)
        \/ \E back \in BOOLEAN : Press(back)
  \/ \E p \in Panels : heightChanged(p)
  \/ \E p \in Panels : HeightFrame(p)
  \/ \E p \in Panels : \E isAtBottom \in BOOLEAN : handleScroll(p, isAtBottom)

SpecFollow == InitLive /\ [][NextFollow]_vars

(***************************************************************************)
(* eventSearchText: the strings of a transcript event the find engine      *)
(* searches.  A field that may be null or absent is a sequence of length   *)
(* 0 (null, absent) or 1.                                                  *)
(***************************************************************************)

Missing == << >>
Some(x) == <<x>>

\* JavaScript truthiness of a string field that may be null or absent
Truthy(o) == o # Missing /\ o[1] # ""

\* texts.push(s) under a condition
PushIf(texts, cond, s) == IF cond THEN Append(texts, s) ELSE texts

\* texts.push(field) when the field is truthy
PushField(texts, o) == IF Truthy(o) THEN Append(texts, o[1]) ELSE texts

\* JSON values: a string, or an object whose properties hold strings
JString(s) == [type |-> "string", text |-> s, pairs |-> << >>]
JObject(pairs) == [type |-> "object", text |-> "", pairs |-> pairs]

JTruthy(o) == o # Missing /\ (o[1].type = "object" \/ o[1].text # "")

Quoted(s) == "\"" \o s \o "\""

RECURSIVE StringifyPairs(_, _)
StringifyPairs(pairs, k) ==
  IF k > Len(pairs) THEN ""
  ELSE (IF k > 1 THEN "," ELSE "")
         \o Quoted(pairs[k][1]) \o ":" \o Quoted(pairs[k][2])
         \o StringifyPairs(pairs, k + 1)

\* JSON.stringify
JSONStringify(v) ==
  IF v.type = "string" THEN Quoted(v.text)
  ELSE "{" \o StringifyPairs(v.pairs, 1) \o "}"

\* Object.hasOwn(obj, key) of a non-null object
HasOwn(obj, key) == \E k \in 1..Len(obj.pairs) : obj.pairs[k][1] = key

\* obj[key] of an own property
Property(obj, key) ==
  obj.pairs[CHOOSE k \in 1..Len(obj.pairs) : obj.pairs[k][1] = key][2]

\* Array.prototype.join("\n")
RECURSIVE JoinFrom(_, _)
JoinFrom(arr, k) ==
  IF k > Len(arr) THEN ""
  ELSE (IF k > 1 THEN "\n" ELSE "") \o arr[k] \o JoinFrom(arr, k + 1)

\* a target: a string or an array of strings
TString(s) == [isArray |-> FALSE, text |-> s, items |-> << >>]
TArray(items) == [isArray |-> TRUE, text |-> "", items |-> items]
TargetTruthy(o) == o # Missing /\ (o[1].isArray \/ o[1].text # "")
TargetText(t) == IF t.isArray THEN JoinFrom(t.items, 1) ELSE t.text

\* a view title: literal segments and {{key}} placeholders, in order
Lit(s) == [key |-> FALSE, text |-> s]
Placeholder(k) == [key |-> TRUE, text |-> k]

RECURSIVE TitleString(_, _)
TitleString(segments, k) ==
  IF k > Len(segments) THEN ""
  ELSE (IF segments[k].key THEN "{{" \o segments[k].text \o "}}" ELSE segments[k].text)
         \o TitleString(segments, k + 1)

\* title.replace(/\{\{(\w+)\}\}/g, (match, key) => Object.hasOwn(arguments, key)
\*   ? String(arguments[key]) : match); Object.hasOwn(null, key) throws
RECURSIVE ReplacePlaceholders(_, _, _)
ReplacePlaceholders(segments, arguments, k) ==
  IF k > Len(segments) THEN [threw |-> FALSE, value |-> ""]
  ELSE LET rest == ReplacePlaceholders(segments, arguments, k + 1)
           seg == segments[k]
       IN IF ~seg.key THEN [threw |-> rest.threw, value |-> seg.text \o rest.value]
          ELSE IF arguments = Missing THEN [threw |-> TRUE, value |-> ""]
          ELSE [threw |-> rest.threw,
                value |-> (IF HasOwn(arguments[1], seg.text)
                           THEN Property(arguments[1], seg.text)
                           ELSE "{{" \o seg.text \o "}}") \o rest.value]

Returns(s) == [threw |-> FALSE, value |-> s]

sampleLimitTitles ==
  [custom |-> "Custom Limit Exceeded", time |-> "Time Limit Exceeded",
   message |-> "Message Limit Exceeded", token |-> "Token Limit Exceeded",
   operator |-> "Operator Canceled", working |-> "Execution Time Limit Exceeded",
   cost |-> "Cost Limit Exceeded"]

approvalDecisionLabels ==
  [approve |-> "Approved", reject |-> "Rejected", terminate |-> "Terminated",
   escalate |-> "Escalated", modify |-> "Modified"]

\* table[key] ?? key
LabelOr(table, key) == IF key \in DOMAIN table THEN table[key] ELSE key

\* the name of the span that groups sandbox events (transform/fixups)
kSandboxSignalName == "53787D8A-D3FC-426D-B383-9F880B70E4AA"

\* the title of a step or span_begin event whose signal is the name or span id
StepTitle(signal, name, type) ==
  IF signal = kSandboxSignalName THEN "Sandbox Events"
  ELSE IF name = "init" THEN "Init"
  ELSE IF name = "sample_init" THEN "Sample Init"
  ELSE IF Truthy(type) THEN type[1] \o ": " \o name
  ELSE "Step: " \o name

\* eventTitle(event): the value returned, or threw
eventTitle(event) ==
  CASE event.event = "model" ->
         Returns(IF Truthy(event.role)
                 THEN "Model Call (" \o event.role[1] \o "): " \o event.model
                 ELSE "Model Call: " \o event.model)
    [] event.event = "tool" ->
         IF event.view # Missing /\ Truthy(event.view[1].title)
         THEN LET r == ReplacePlaceholders(event.view[1].segments, event.arguments, 1)
              IN [threw |-> r.threw, value |-> "Tool: " \o r.value]
         ELSE Returns("Tool: " \o event.function)
    [] event.event = "error" -> Returns("Error")
    [] event.event = "logger" -> Returns(event.message.level)
    [] event.event = "info" ->
         Returns("Info" \o (IF Truthy(event.source) THEN ": " \o event.source[1] ELSE ""))
    [] event.event = "compaction" ->
         Returns("Compaction" \o (IF Truthy(event.source) /\ event.source[1] # "inspect"
                                  THEN event.source[1] ELSE ""))
    [] event.event = "step" -> Returns(StepTitle(event.name, event.name, event.type))
    [] event.event = "subtask" ->
         Returns(IF event.type = Some("fork") THEN "Fork: " \o event.name
                 ELSE "Subtask: " \o event.name)
    [] event.event = "span_begin" ->
         Returns(StepTitle(event.span_id, event.name, event.type))
    [] event.event = "score" ->
         Returns((IF event.intermediate THEN "Intermediate " ELSE "") \o "Score")
    [] event.event = "score_edit" -> Returns("Edit Score")
    [] event.event = "sample_init" -> Returns("Sample")
    [] event.event = "sample_limit" -> Returns(LabelOr(sampleLimitTitles, event.type))
    [] event.event = "input" -> Returns("Input")
    [] event.event = "approval" -> Returns(LabelOr(approvalDecisionLabels, event.decision))
    [] event.event = "sandbox" -> Returns("Sandbox: " \o event.action)
    [] OTHER -> Returns("")

\* message content: a string or a list of content items
CString(s) == [isString |-> TRUE, text |-> s, items |-> << >>]
CList(items) == [isString |-> FALSE, text |-> "", items |-> items]
Item(type, text, summary, arguments) ==
  [type |-> type, text |-> text, summary |-> summary, arguments |-> arguments]

RECURSIVE ItemTexts(_, _)
ItemTexts(items, k) ==
  IF k > Len(items) THEN << >>
  ELSE LET item == items[k]
           here ==
             CASE item.type = "text" -> <<item.text>>
               [] item.type = "reasoning" ->
                    IF item.text # "" THEN <<item.text>>
                    ELSE IF item.summary # "" THEN <<item.summary>> ELSE << >>
               [] item.type = "tool_use" ->
                    PushIf(PushIf(<< >>, item.text # "", item.text),
                           JTruthy(item.arguments),
                           IF item.arguments = Missing THEN ""
                           ELSE JSONStringify(item.arguments[1]))
               [] OTHER -> << >>
       IN here \o ItemTexts(items, k + 1)

extractContentText(content) ==
  IF content.isString THEN <<content.text>> ELSE ItemTexts(content.items, 1)

RECURSIVE ChoiceTexts(_, _)
ChoiceTexts(choices, k) ==
  IF k > Len(choices) THEN << >>
  ELSE extractContentText(choices[k]) \o ChoiceTexts(choices, k + 1)

RECURSIVE InputTexts(_, _)
InputTexts(input, k) ==
  IF k > Len(input) THEN << >>
  ELSE (IF input[k].role \in {"user", "system"}
        THEN extractContentText(input[k].content) ELSE << >>)
       \o InputTexts(input, k + 1)

\* an error of a model event: a string, or an object with a message
ErrString(s) == [isString |-> TRUE, message |-> Some(s), traceback |-> Missing]
ErrObject(message, traceback) ==
  [isString |-> FALSE, message |-> message, traceback |-> traceback]
ErrTruthy(o) == o # Missing /\ (~o[1].isString \/ Truthy(o[1].message))

\* the tool call view with its placeholders filled in, for a content that
\* holds no placeholder
substituteToolCallContent(view, arguments) == [content |-> view.content[1]]

\* the switch of eventSearchText: the fields of each kind, after the title
KindTexts(texts, event) ==
  CASE event.event = "model" ->
         LET t1 == IF event.output # Missing
                   THEN texts \o ChoiceTexts(event.output[1], 1) ELSE texts
             t2 == IF event.input # Missing
                   THEN t1 \o InputTexts(event.input[1], 1) ELSE t1
             t3 == IF ErrTruthy(event.error)
                   THEN PushField(t2, event.error[1].message) ELSE t2
         IN PushField(t3, event.traceback)
    [] event.event = "tool" ->
         LET t1 == PushIf(texts, event.function # "", event.function)
             t2 == IF JTruthy(event.arguments)
                   THEN Append(t1, JSONStringify(event.arguments[1])) ELSE t1
             t3 == IF JTruthy(event.result)
                   THEN Append(t2, IF event.result[1].type = "string"
                                   THEN event.result[1].text
                                   ELSE JSONStringify(event.result[1]))
                   ELSE t2
             t4 == IF event.error # Missing THEN PushField(t3, event.error[1].message) ELSE t3
         IN IF event.view # Missing /\ Truthy(event.view[1].content)
            THEN Append(t4, substituteToolCallContent(event.view[1], event.arguments).content)
            ELSE t4
    [] event.event = "error" ->
         IF event.error = Missing THEN texts
         ELSE PushField(PushField(texts, event.error[1].message), event.error[1].traceback)
    [] event.event = "logger" ->
         PushField(PushField(texts, event.message.message), event.message.filename)
    [] event.event = "info" ->
         IF JTruthy(event.data)
         THEN Append(texts, IF event.data[1].type = "string" THEN event.data[1].text
                            ELSE JSONStringify(event.data[1]))
         ELSE texts
    [] event.event = "compaction" ->
         Append(PushField(texts, event.source),
                JSONStringify(JObject(
                  <<<<"event", "compaction">>>> \o
                  (IF event.source = Missing THEN << >>
                   ELSE <<<<"source", event.source[1]>>>>))))
    [] event.event = "subtask" ->
         LET t1 == IF JTruthy(event.input)
                   THEN Append(texts, JSONStringify(event.input[1])) ELSE texts
         IN IF JTruthy(event.result) THEN Append(t1, JSONStringify(event.result[1])) ELSE t1
    [] event.event = "score" ->
         LET t1 == PushField(PushField(texts, event.score.answer), event.score.explanation)
             t2 == IF TargetTruthy(event.target)
                   THEN Append(t1, TargetText(event.target[1])) ELSE t1
         IN IF event.score.value # Missing
            THEN Append(t2, IF event.score.value[1].type = "object"
                            THEN JSONStringify(event.score.value[1])
                            ELSE event.score.value[1].text)
            ELSE t2
    [] event.event = "score_edit" ->
         LET t1 == PushField(PushField(texts, event.edit.answer), event.edit.explanation)
         IN IF event.edit.provenance = Missing THEN t1
            ELSE PushField(PushField(t1, event.edit.provenance[1].author),
                           event.edit.provenance[1].reason)
    [] event.event = "sample_init" ->
         IF TargetTruthy(event.sample.target)
         THEN Append(texts, TargetText(event.sample.target[1])) ELSE texts
    [] event.event = "sample_limit" -> PushField(texts, event.message)
    [] event.event = "input" -> PushField(texts, event.input_ansi)
    [] event.event = "approval" -> PushField(texts, event.explanation)
    [] event.event = "sandbox" ->
         PushField(PushField(PushField(PushField(texts, event.cmd), event.file),
                             event.input), event.output)
    [] OTHER -> texts

\* a slip: the title is pushed after the fields of the kind
eventSearchText_TitleLast(event) ==
  LET title == eventTitle(event)
  IN IF title.threw THEN [threw |-> TRUE, texts |-> << >>]
     ELSE [threw |-> FALSE,
           texts |-> PushIf(KindTexts(<< >>, event), title.value # "", title.value)]

\* eventSearchText(node), node.event being the event
eventSearchText(event) ==
  LET title == eventTitle(event)
  IN IF title.threw THEN [threw |-> TRUE, texts |-> << >>]
     ELSE [threw |-> FALSE,
           texts |-> KindTexts(PushIf(<< >>, title.value # "", title.value), event)]

(***************************************************************************)
(* The events the extraction is checked on                                 *)
(***************************************************************************)

OptOf(S) == {Missing} \cup {Some(x) : x \in S}

Names == {"generate", "my_step", "evaluate", "init"}
Args == {Missing, Some(JObject(<< >>)), Some(JObject(<<<<"cmd", "ls">>>>))}
Contents ==
  {CString("hello"),
   CList(<<Item("text", "hi", "", Missing)>>),
   CList(<<Item("reasoning", "", "sum", Missing), Item("image", "", "", Missing)>>),
   CList(<<Item("tool_use", "bash", "", Some(JObject(<<<<"cmd", "ls">>>>)))>>)}
View(segments, content) ==
  Some([title |-> Some(TitleString(segments, 1)), segments |-> segments,
        content |-> content])
Views ==
  {Missing,
   View(<<Lit("Web Search")>>, Missing),
   View(<<Lit("Run "), Placeholder("cmd")>>, Some("ran")),
   Some([title |-> Missing, segments |-> << >>, content |-> Some("ran")])}

ModelEvents ==
  {[event |-> "model", role |-> role, model |-> "gpt-4", output |-> output,
    input |-> input, error |-> error, traceback |-> traceback] :
     role \in OptOf({"assistant"}),
     output \in {Missing} \cup {Some(<<c>>) : c \in Contents},
     input \in {Missing, Some(<< >>),
                Some(<<[role |-> "user", content |-> CString("ask")],
                       [role |-> "assistant", content |-> CString("reply")]>>)},
     error \in {Missing, Some(ErrString("rate limit")),
                Some(ErrObject(Some("bad request"), Missing)),
                Some(ErrObject(Missing, Missing))},
     traceback \in OptOf({"Traceback"})}

ToolEvents ==
  {[event |-> "tool", function |-> "search", arguments |-> arguments,
    result |-> result, error |-> error, view |-> view] :
     arguments \in Args,
     result \in {Missing, Some(JString("found")), Some(JObject(<<<<"n", "1">>>>))},
     error \in {Missing, Some(ErrObject(Some("timeout"), Missing))},
     view \in Views}

StepEvents ==
  {[event |-> kind, name |-> name, span_id |-> "span-1", type |-> type] :
     kind \in {"step", "span_begin"},
     name \in Names \cup {"sample_init", kSandboxSignalName},
     type \in OptOf({"solver"})}

OtherEvents ==
  {[event |-> "error", error |-> e] :
     e \in {Missing, Some(ErrObject(Some("something broke"), Missing)),
            Some(ErrObject(Some("something broke"), Some("Traceback")))}}
  \cup {[event |-> "logger",
         message |-> [level |-> "WARNING", message |-> m, filename |-> f]] :
          m \in OptOf({"disk space low"}), f \in OptOf({"main.py"})}
  \cup {[event |-> "info", source |-> src, data |-> d] :
          src \in OptOf({"system", ""}),
          d \in {Missing, Some(JString("startup complete")), Some(JObject(<<<<"k", "v">>>>))}}
  \cup {[event |-> "compaction", source |-> src] : src \in OptOf({"inspect", "auto"})}
  \cup {[event |-> "subtask", name |-> "check", type |-> type, input |-> i, result |-> r] :
          type \in OptOf({"fork", "subtask"}),
          i \in {Missing, Some(JObject(<<<<"q", "1">>>>))},
          r \in {Missing, Some(JString("done"))}}
  \cup {[event |-> "score", intermediate |-> im,
         score |-> [answer |-> a, explanation |-> Some("partial"), value |-> v],
         target |-> t] :
          im \in BOOLEAN, a \in OptOf({"yes"}),
          v \in {Missing, Some(JString("C")), Some(JObject(<<<<"acc", "1">>>>))},
          t \in {Missing, Some(TString("expected")), Some(TArray(<<"a", "b">>)),
                 Some(TArray(<< >>))}}
  \cup {[event |-> "score_edit",
         edit |-> [answer |-> Some("new"), explanation |-> x, provenance |-> pr]] :
          x \in OptOf({"fixed"}),
          pr \in {Missing, Some([author |-> Some("me"), reason |-> Missing]),
                  Some([author |-> Missing, reason |-> Some("typo")])}}
  \cup {[event |-> "sample_init", sample |-> [target |-> t]] :
          t \in {Missing, Some(TString("expected answer")), Some(TArray(<<"a", "b">>))}}
  \cup {[event |-> "sample_limit", type |-> type, message |-> m] :
          type \in DOMAIN sampleLimitTitles \cup {"turns"},
          m \in OptOf({"", "limit reached"})}
  \cup {[event |-> "input", input_ansi |-> i] : i \in OptOf({"user typed this"})}
  \cup {[event |-> "approval", decision |-> d, explanation |-> x] :
          d \in DOMAIN approvalDecisionLabels \cup {"defer"}, x \in OptOf({"", "ok"})}
  \cup {[event |-> "sandbox", action |-> "exec", cmd |-> c, file |-> f,
         input |-> i, output |-> o] :
          c \in OptOf({"ls -la"}), f \in OptOf({"a.txt"}),
          i \in OptOf({"in"}), o \in OptOf({"out"})}
  \cup {[event |-> "state"], [event |-> "store"]}

Events == ModelEvents \cup ToolEvents \cup StepEvents \cup OtherEvents

\* itemSearchText(item) is called on an event node
Extract ==
  /\ ~searchText.done
  /\ LET r == eventSearchText(searchText.node)
     IN searchText' = [node |-> searchText.node, done |-> TRUE,
                       threw |-> r.threw, texts |-> r.texts]
  /\ UNCHANGED <<data, dom, matchCounters, goToMatchFns, probe, renderCoordinator, findBand, scan, renderQueue, appended,
                 unregisterFns, unmounted, orphans, follow,
                 visibleRangeRef, inFrame, engineVars, bandVars>>

\* the scan of the data moves on to another event node
NextItem(event) ==
  /\ searchText.done
  /\ searchText' = [node |-> event, done |-> FALSE, threw |-> FALSE, texts |-> << >>]
  /\ UNCHANGED <<data, dom, matchCounters, goToMatchFns, probe, renderCoordinator, findBand, scan, renderQueue, appended,
                 unregisterFns, unmounted, orphans, follow,
                 visibleRangeRef, inFrame, engineVars, bandVars>>

InitEvents ==
  /\ InitConfig
  /\ follow = [p \in Panels |-> Following(FALSE)]
  /\ \E event \in Events :
       searchText = [node |-> event, done |-> FALSE, threw |-> FALSE, texts |-> << >>]
  /\ scan = NoScan
  /\ renderQueue = NoRender
  /\ renderCoordinator = NoCoordinator
  /\ findBand = "live"

NextEvents ==
  \/ Extract
  \/ \E event \in Events : NextItem(event)

SpecEvents == InitEvents /\ [][NextEvents]_vars

\* The find band used at leisure: a search starts when the work of the
\* previous one is over (no timer running, no animation frame requested).
Quiet == timers = << >> /\ rafQueue = << >>

NextSettled ==
  \/ EngineNext
  \/ /\ searchIdRef < MaxSettled
     /\ Quiet
     /\ \/ \E term \in BoxTerms : Type(term)
        \/ \E back \in BOOLEAN : Press(back)

SpecSettled == Init /\ [][NextSettled]_vars

(***************************************************************************)
(* Data-level resolution on its own: goToMatch(probe, k) for k = 0, 1, 2,  *)
(* ... on one panel, over every short transcript and the transcript of     *)
(* the worked example (2 matches in item 2, 3 matches in item 7)           *)
(***************************************************************************)

MaxItems    == 2     \* items of an enumerated transcript
MaxResolveK == 6     \* largest absolute index resolved

itTwo == << <<"a", "b", "A">> >>

ScenarioData ==
  <<itNone, itNone, itTwo, itNone, itNone, itNone, itNone, itQuoted>>

ItemPool == {itQuoted, itA, itNone, itQ1, itTwo}

RECURSIVE SeqsUpTo(_, _)
SeqsUpTo(S, n) ==
  IF n = 0 THEN {<< >>}
  ELSE LET shorter == SeqsUpTo(S, n - 1)
       IN shorter \cup {Append(q, x) : q \in shorter, x \in S}

InitResolve ==
  /\ \E items \in SeqsUpTo(ItemPool, MaxItems) \cup {ScenarioData} :
       /\ data = [p \in Panels |-> IF p = 1 THEN items ELSE << >>]
       /\ dom = [p \in Panels |-> [i \in 1..Len(data[p]) |-> Rendered(data[p][i], "full")]]
  /\ probe \in AllTerms
  /\ InitRest
  /\ follow = [p \in Panels |-> Following(FALSE)]
  /\ searchText = NoText
  /\ scan = NoScan
  /\ renderQueue = NoRender
  /\ renderCoordinator = NoCoordinator
  /\ findBand = "live"

ResolveNext ==
  /\ Len(navs) <= MaxResolveK
  /\ GoToMatchDirect(probe, Len(navs))

NextResolve == ResolveNext

SpecResolve == InitResolve /\ [][NextResolve]_vars

(***************************************************************************)
(* Reference definitions for the claims: a character-by-character scan     *)
(***************************************************************************)

SameLetter(c, d) == LowerChar(c) = LowerChar(d)

RefOccursAt(text, term, p) ==
  /\ p + Len(term) <= Len(text)
  /\ \A j \in 1..Len(term) : SameLetter(text[p + j], term[j])

\* non-overlapping occurrences of a non-empty term in one string, left to right
RECURSIVE RefCountFrom(_, _, _)
RefCountFrom(text, term, p) ==
  IF p + Len(term) > Len(text) THEN 0
  ELSE IF RefOccursAt(text, term, p) THEN 1 + RefCountFrom(text, term, p + Len(term))
  ELSE RefCountFrom(text, term, p + 1)

RECURSIVE RefItemCountFrom(_, _, _)
RefItemCountFrom(item, term, s) ==
  IF s > Len(item) THEN 0
  ELSE RefCountFrom(item[s], term, 0) + RefItemCountFrom(item, term, s + 1)

RefItemCount(item, term) == RefItemCountFrom(item, term, 1)

\* matches in the items of index below i (0-based)
RECURSIVE RefBefore(_, _, _)
RefBefore(items, term, i) ==
  IF i <= 0 THEN 0
  ELSE RefBefore(items, term, i - 1) + RefItemCount(items[i], term)

RefDataCount(items, term) == RefBefore(items, term, Len(items))

RECURSIVE RefTotalFrom(_, _)
RefTotalFrom(term, p) ==
  IF p \notin Panels THEN 0 ELSE RefDataCount(data[p], term) + RefTotalFrom(term, p + 1)

RefTotal(term) == RefTotalFrom(term, 1)

(***************************************************************************)
(* Claims                                                                  *)
(***************************************************************************)

\* C1: in every reachable state (whatever the visible range, the pending
\* navigation and the highlights are) the data-level count of each panel, for
\* every non-empty term, is the sum over its items and over each string taken
\* on its own of the non-overlapping case-insensitive occurrences; the count
\* the find band caches and shows is that sum over the panels, call after call.
C1_CountIsLinearScan ==
  /\ \A p \in Panels : \A term \in AllTerms \ {tEmpty} :
       countMatchesInData(data[p], term) = RefDataCount(data[p], term)
  /\ matchCount # NoCount => matchCount = RefTotal(currentSearchTerm)
  /\ cachedCount.term # tEmpty => cachedCount.count = RefTotal(cachedCount.term)

\* two searches for "a" returned 5 while the list was scrolled away from the
\* top and a highlight was painted; "aa" would match across two strings of item 0
C1_Witness ==
  /\ searchIdRef >= 2
  /\ currentSearchTerm = tA
  /\ matchCount = 5
  /\ visibleRangeRef[1].startIndex > 0
  /\ cssCurrent # Null
  /\ Includes(ToLowerCase(Concat(data[1][1])), <<"a", "a">>)
  /\ countMatchesInData(data[1], <<"a", "a">>) = 0

\* the navigations of SpecResolve: navs[n] resolves absolute index n - 1
ResolvedAt(n) == [targetIdx |-> navs[n].targetIdx,
                  occurrenceInItem |-> navs[n].occurrenceInItem]

\* C2: for 1 <= k <= count the walk selects the one item i and occurrence o
\* with o = k - (matches before i) and 1 <= o <= matches(i); for k above the
\* count the navigation is not-found and has requested no scroll.
C2_Resolution ==
  \A n \in 1..Len(navs) :
    LET k == navs[n].k
        items == data[1]
        count == RefDataCount(items, navs[n].term)
        owners == {i \in 0..(Len(items) - 1) :
                     /\ k - RefBefore(items, navs[n].term, i) >= 1
                     /\ k - RefBefore(items, navs[n].term, i)
                          <= RefItemCount(items[i + 1], navs[n].term)}
    IN navs[n].term # tEmpty =>
         /\ (k >= 1 /\ k <= count) =>
              /\ Cardinality(owners) = 1
              /\ navs[n].targetIdx \in owners
              /\ navs[n].occurrenceInItem
                   = k - RefBefore(items, navs[n].term, navs[n].targetIdx)
              /\ navs[n].status = "wait"
              /\ navs[n].i = navs[n].targetIdx
         /\ k > count =>
              /\ navs[n].status = "notfound"
              /\ navs[n].targetIdx = -1
              /\ navs[n].calls = 0
              /\ navs[n].scrolls = 0
              /\ \A t \in 1..Len(timers) : timers[t].nav # n
              /\ \A r \in 1..Len(rafQueue) : rafQueue[r].nav # n

\* the worked example: k = 3 resolves to (item 7, occurrence 1), k = 5 to
\* (item 7, occurrence 3), and k = 6 is not found
C2_Witness ==
  /\ data[1] = ScenarioData
  /\ probe = tA
  /\ Len(navs) = 7
  /\ ResolvedAt(4) = [targetIdx |-> 7, occurrenceInItem |-> 1]
  /\ ResolvedAt(6) = [targetIdx |-> 7, occurrenceInItem |-> 3]
  /\ navs[7].status = "notfound"

\* C3: resolving k and k + 1 (both within 1..count) gives the same item with
\* the occurrence one higher, or a strictly larger item with occurrence 1; the
\* item index never decreases as k grows.
C3_Monotonic ==
  LET count == RefDataCount(data[1], probe)
      inside == {n \in 1..Len(navs) : navs[n].k >= 1 /\ navs[n].k <= count}
  IN probe # tEmpty =>
       /\ \A n \in inside : (n + 1) \in inside =>
            \/ /\ navs[n + 1].targetIdx = navs[n].targetIdx
               /\ navs[n + 1].occurrenceInItem = navs[n].occurrenceInItem + 1
            \/ /\ navs[n + 1].targetIdx > navs[n].targetIdx
               /\ navs[n + 1].occurrenceInItem = 1
       /\ \A n, m \in inside : n <= m => navs[n].targetIdx <= navs[m].targetIdx
       /\ \A n \in inside : navs[n].targetIdx >= 0

\* both cases in one run: 1 and 2 stay in item 2, 3 moves on to item 7
C3_Witness ==
  /\ data[1] = ScenarioData
  /\ probe = tA
  /\ Len(navs) >= 4
  /\ ResolvedAt(2) = [targetIdx |-> 2, occurrenceInItem |-> 1]
  /\ ResolvedAt(3) = [targetIdx |-> 2, occurrenceInItem |-> 2]
  /\ ResolvedAt(4) = [targetIdx |-> 7, occurrenceInItem |-> 1]

\* a goToMatchImpl invocation suspended in "await scrollToMatch" on its panel
Waiting(n) == navs[n].status = "wait" /\ navs[n].panel \in Panels

\* ... which a later invocation on the same panel has overtaken
StaleOn(n) == Waiting(n) /\ navs[n].token # navTokenRef[navs[n].panel]

\* ... which is still the latest invocation on its panel
Latest(n) == Waiting(n) /\ navs[n].token = navTokenRef[navs[n].panel]

C4_Step ==
  /\ \A n \in 1..Len(navs) : StaleOn(n) =>
       /\ ~(navs'[n].status = "found" /\ navs'[n].panel = navs[n].panel)
       /\ navs'[n] # navs[n] =>
            /\ cssCurrent' = cssCurrent
            /\ cssAll' = cssAll
            /\ currentHighlightRef' = currentHighlightRef
  /\ \A p \in Panels : currentHighlightRef'[p] # currentHighlightRef[p] =>
       \E n \in 1..Len(navs) :
         /\ Latest(n)
         /\ navs[n].panel = p
         /\ navs'[n].status = "found"
         /\ currentHighlightRef'[p] = Span(p, navs[n].i, navs[n].term, navs[n].occ)
         /\ cssCurrent' = currentHighlightRef'[p]

\* C4: an invocation of goToMatchImpl that a later invocation on the same panel
\* has overtaken while it waited never finishes as found on that panel, and the
\* step that resumes it changes neither "find-match-current", nor
\* "find-match-all", nor currentHighlightRef; currentHighlightRef of a panel is
\* only ever set by the latest invocation on it, to that invocation's occurrence.
C4_Cancellation == [][C4_Step]_vars

\* navigation 1 waited, navigation 2 overtook it on panel 1: 1 ended not found
\* after its wait, 2 is the highlight
C4_Witness ==
  /\ Len(navs) >= 2
  /\ navs[1].status = "notfound" /\ navs[1].calls = 1 /\ navs[1].panel = 1
  /\ navs[2].status = "found" /\ navs[2].panel = 1
  /\ navs[1].token < navs[2].token
  /\ currentHighlightRef[1] = Span(1, navs[2].i, navs[2].term, navs[2].occ)
  /\ cssCurrent = currentHighlightRef[1]

\* C5: a navigation that completes with a highlight does so for the term the
\* find band currently holds: once the term has changed (to another term, to a
\* term without matches, to the empty term) a navigation for the previous term
\* applies no highlight.
C5_TermChangeDiscards ==
  [][\A n \in 1..Len(navs) :
       (navs[n].status = "wait" /\ navs'[n].status = "found")
         => navs[n].term = currentSearchTerm]_vars

\* C6: every scrollToMatch call that has not resolved yet still has something
\* that will resolve it: a queued animation-frame callback, the pending target
\* a range change resolves, or its own 2000 ms timer.
C6_EveryCallResolves ==
  \A n \in 1..Len(navs) : Waiting(n) =>
    \/ \E r \in 1..Len(rafQueue) :
         rafQueue[r].kind = "resolve" /\ rafQueue[r].nav = n /\ rafQueue[r].index = navs[n].i
    \/ /\ pendingTargetRef[navs[n].panel] # Null
       /\ pendingTargetRef[navs[n].panel].nav = n
    \/ \E t \in 1..Len(timers) : timers[t].nav = n /\ timers[t].index = navs[n].i

RefContains(text, term) == \E q \in 0..Len(text) : RefOccursAt(text, term, q)

RefHasSpecial(term) == \E j \in 1..Len(term) : term[j] \in {"\"", ":"}

IsQuote(c) == c = "\""
NotQuote(c) == c # "\""

RECURSIVE RefEscaped(_)
RefEscaped(term) ==
  IF term = << >> THEN << >>
  ELSE IF IsQuote(term[Len(term)])
       THEN RefEscaped(SubSeq(term, 1, Len(term) - 1)) \o <<"\\", "\"">>
       ELSE RefEscaped(SubSeq(term, 1, Len(term) - 1)) \o <<term[Len(term)]>>

\* the item passes the lenient filter: a string of it contains the term, or,
\* for a term with a double quote or a colon, the term without its quotes or
\* with its quotes backslash-escaped
RefLenient(item, term) ==
  \E s \in 1..Len(item) :
    \/ RefContains(item[s], term)
    \/ /\ RefHasSpecial(term)
       /\ \/ SelectSeq(term, NotQuote) # << >>
             /\ RefContains(item[s], SelectSeq(term, NotQuote))
          \/ RefContains(item[s], RefEscaped(term))

RefStrict(item, term) == RefItemCount(item, term) > 0

\* the rendered count of item i of panel p
RefRendered(p, i, term) ==
  IF Mounted(p, i) THEN RefCountFrom(dom[p][i + 1], term, 0) ELSE 0

LeftPanel(n) == navs'[n].status = "notfound" \/ navs'[n].pos > navs[n].pos

\* one step of reconciliation of navigation n, advancing over the items in later
C7_Reconcile(n, later) ==
  LET p == navs[n].panel
      i == navs[n].i
      o == navs[n].occ
      d == RefRendered(p, i, navs[n].term)
  IN IF o <= d
     THEN /\ navs'[n].status = "found"
          /\ navs'[n].i = i
          /\ cssCurrent' = Span(p, i, navs[n].term, o)
          /\ currentHighlightRef'[p] = cssCurrent'
     ELSE /\ navs'[n].occ = o - d
          /\ IF later = {} THEN LeftPanel(n)
             ELSE LET j == CHOOSE x \in later : \A y \in later : x <= y
                  IN /\ navs'[n].status = "wait"
                     /\ navs'[n].panel = p
                     /\ navs'[n].i = j
                     /\ navs'[n].calls = navs[n].calls + 1
                     /\ \/ InRange(p, j)
                        \/ pendingTargetRef'[p] = [index |-> j, nav |-> n]

Resumed(n) == Latest(n) /\ navs'[n] # navs[n]

LaterItems(n, Keep(_, _)) ==
  {j \in (navs[n].i + 1)..(Len(data[navs[n].panel]) - 1) :
     Keep(data[navs[n].panel][j + 1], navs[n].term)}

\* C7 as stated: with budget o and rendered count d, o <= d highlights the o-th
\* rendered occurrence; otherwise the budget becomes o - d and the navigation
\* moves to the next item of higher index whose search text contains the term,
\* or ends on this panel when there is none.
C7_AsStated ==
  [][\A n \in 1..Len(navs) : Resumed(n) => C7_Reconcile(n, LaterItems(n, RefStrict))]_vars

\* C7, amended: the same, the next item being the next one that passes the
\* lenient filter of searchInItem (the term, or for a term with a double quote
\* or a colon its unquoted or JSON-escaped variation, occurs in a string of it).
C7_Reconciliation ==
  [][\A n \in 1..Len(navs) : Resumed(n) => C7_Reconcile(n, LaterItems(n, RefLenient))]_vars

\* the worked example: item 0 has 3 matches in its data and 1 rendered;
\* occurrence 2 of it ends on the first rendered occurrence of item 1
C7_Witness ==
  /\ RefItemCount(data[1][1], tA) = 3
  /\ RefCountFrom(dom[1][1], tA, 0) = 1
  /\ \E n \in 1..Len(navs) :
       /\ navs[n].term = tA
       /\ navs[n].targetIdx = 0 /\ navs[n].occurrenceInItem = 2
       /\ navs[n].status = "found" /\ navs[n].i = 1 /\ navs[n].occ = 1
       /\ navs[n].calls = 2
       /\ cssCurrent = Span(1, 1, tA, 1)

Wrapped(m, N, back) ==
  IF back THEN (IF m = 1 THEN N ELSE m - 1) ELSE (IF m = N THEN 1 ELSE m + 1)

C8_Step ==
  (/\ searchIdRef' # searchIdRef
   /\ currentSearchTerm' = currentSearchTerm
   /\ matchCount' > 0)
  => LET N == matchCount'
         m == matchIndexRef
         target == Wrapped(m, N, lastBack')
     IN /\ N = matchCount
        /\ m \in 1..N
        /\ matchIndexRef' = target
        /\ currentMatchIndex' = target
        /\ LegacyTargetIndex0(FALSE, m, lastBack', N) + 1 = target
        /\ Len(navs') = Len(navs) + 1
        /\ navs'[Len(navs')].k = target
        /\ navs'[Len(navs')].term = currentSearchTerm

\* C8: a search for the unchanged term with N > 0 matches moves the current
\* index from N to 1 going forward and from 1 to N going back, and by exactly
\* +1 / -1 from every other index; that index is shown and is the one
\* goToMatch is called with; the older find band computes the same target.
C8_WrapAround == [][C8_Step]_vars

\* three searches for a term with 2 matches: 1, then 2 (reached going back
\* from the first match or forward), then forward from the last match to 1
C8_Witness ==
  /\ Len(navs) = 3
  /\ matchCount = 2
  /\ navs[1].k = 1 /\ navs[2].k = 2 /\ navs[3].k = 1
  /\ \A n \in 1..3 : navs[n].term = currentSearchTerm
  /\ currentMatchIndex = 1
  /\ ~lastBack
  /\ cachedCount = [term |-> currentSearchTerm, count |-> 2]

\* the term occurs in no string of no item of any panel
Absent(term) ==
  /\ term # tEmpty
  /\ \A p \in Panels : \A i \in 1..Len(data[p]) : \A s \in 1..Len(data[p][i]) :
       ~RefContains(data[p][i][s], term)

\* C9: for a term that occurs in no item's search text, countAllMatches is 0
\* (for every term when the items are loaded, the data being fixed afterwards,
\* and for the terms searched for in every state); while the find band holds
\* such a term it shows 0 results and current index 0, and no navigation of the
\* band carries such a term; a direct goToMatch with such a term, whatever k,
\* is not found and has called scrollToMatch not once.
C9_AbsentTerm ==
  /\ navs = << >> =>
       \A term \in AllTerms : Absent(term) => countAllMatches(term) = 0
  /\ Absent(currentSearchTerm) =>
       /\ countAllMatches(currentSearchTerm) = 0
       /\ matchCount = 0 /\ currentMatchIndex = 0 /\ matchIndexRef = 0
  /\ \A n \in 1..Len(navs) : Absent(navs[n].term) =>
       /\ countAllMatches(navs[n].term) = 0
       /\ navs[n].src = "direct"
       /\ navs[n].status = "notfound"
       /\ navs[n].targetIdx = -1
       /\ navs[n].calls = 0
       /\ navs[n].scrolls = 0
       /\ \A t \in 1..Len(timers) : timers[t].nav # n
       /\ \A r \in 1..Len(rafQueue) : rafQueue[r].nav # n

\* the band searched "\"a", which no item contains although "a" (the term
\* without its quote) occurs, and goToMatch("\"a", 1) ran phase 1 on both panels
C9_Witness ==
  /\ Absent(tQA)
  /\ \E p \in Panels : \E i \in 1..Len(data[p]) : searchInItem(data[p][i], tQA)
  /\ currentSearchTerm = tQA
  /\ matchCount = 0
  /\ Len(navs) = 1
  /\ navs[1].term = tQA /\ navs[1].k = 1 /\ navs[1].status = "notfound"
  /\ navTokenRef = [p \in Panels |-> 1]

\* every item, once rendered, shows all the matches of its data
AllExposed(term) ==
  \A p \in Panels : \A i \in 1..Len(data[p]) :
    RefCountFrom(dom[p][i], term, 0) = RefItemCount(data[p][i], term)

\* C10: when countAllMatches(term) = N > 0 and every rendered item exposes all
\* of its data-level matches, goToMatch(term, k) with k in 1..N, run on its
\* own, does not end not-found.
C10_Contiguous ==
  (/\ Len(navs) = 1
   /\ searchIdRef = 0
   /\ navs[1].k >= 1
   /\ navs[1].k <= countAllMatches(navs[1].term)
   /\ AllExposed(navs[1].term))
  => navs[1].status # "notfound"

\* C11: a search of the find band for a non-empty term shows the number of
\* matches of the data as it is when the search runs; in particular the search
\* that follows an append shows the count of the new data.
C11_CountFollowsData ==
  [][(searchIdRef' # searchIdRef /\ currentSearchTerm' # tEmpty)
       => matchCount' = RefTotal(currentSearchTerm')]_vars

\* the entries a new iteration of the registry visits
LiveEntries(reg) == SelectSeq(reg, LAMBDA e : e.id # 0)

EntriesOf(reg, id) == {c \in 1..Len(reg) : reg[c].id = id}

C12_Registry(reg) ==
  \A id \in Panels :
    /\ Cardinality(EntriesOf(reg, id)) <= 1
    /\ \A f, g \in 0..MaxRender :
         LET twice == MapSet(MapSet(reg, id, f), id, g)
         IN /\ Cardinality(EntriesOf(twice, id)) = 1
            /\ \A c \in EntriesOf(twice, id) : twice[c].fn = g
            /\ twice = MapSet(reg, id, g)
            /\ \A other \in Panels \ {id} :
                 EntriesOf(twice, other) = EntriesOf(reg, other)
    /\ MapDelete(MapDelete(reg, id), id) = MapDelete(reg, id)
    /\ EntriesOf(MapDelete(reg, id), id) = {}
    /\ \A other \in Panels \ {id} :
         EntriesOf(MapDelete(reg, id), other) = EntriesOf(reg, other)

\* C12: in every state the registries can reach, each id has at most one
\* entry; registering an id twice leaves exactly one entry for it, holding the
\* function registered last, and is the same as registering that function once;
\* unregistering an id twice is the same as unregistering it once; neither
\* touches the entries of the other ids.
C12_Idempotent == C12_Registry(matchCounters) /\ C12_Registry(goToMatchFns)

\* list 1 was unregistered and registered again with the function of a later
\* render, list 2 registered a new function over its old one in place, and
\* the second unregistration of list 1 in goToMatchFns changed nothing
C12_Witness ==
  /\ Len(matchCounters) = 3
  /\ matchCounters[1] = Emptied
  /\ matchCounters[2] = Entry(2, MaxRender)
  /\ matchCounters[3] = Entry(1, 1)
  /\ LiveEntries(goToMatchFns) = <<Entry(2, Len(data[2]))>>
  /\ \E h \in unregisterFns.goTo : h.id = 1

\* navigation n awaits scrollToMatch on a list that unmounted under it
Orphaned(n) ==
  /\ n \in orphans
  /\ navs[n].status = "wait"
  /\ navs[n].panel \in unmounted

C13_Step ==
  \A n \in 1..Len(navs) :
    Orphaned(n) =>
      LET p == navs[n].panel
      IN /\ ~(navs'[n].status = "found" /\ navs'[n].panel = p)
         /\ navs'[n] # navs[n] =>
              /\ cssCurrent' = cssCurrent
              /\ cssAll' = cssAll
              /\ currentHighlightRef' = currentHighlightRef
              /\ \/ navs'[n].status = "wait" /\ navs'[n].panel = p
                 \/ navs'[n].status = "wait" /\ navs'[n].panel \notin unmounted
                 \/ navs'[n].status = "notfound"

\* What holds of C13: a goToMatch call that awaits a list when the list
\* unmounts never ends found on that list, and every step in which it resumes
\* changes no highlight and leaves it waiting for a later item of the list,
\* handed to the next registered list, or ended not-found.
C13_NeverFoundThere == [][C13_Step]_vars

\* C13: a goToMatch call that was in flight on a list when the list unmounted
\* resolves: once the timers and animation frames it requested have run, it is
\* no longer waiting.
C13_Resolves ==
  \A n \in orphans :
    (timers = << >> /\ rafQueue = << >>) => navs[n].status # "wait"

\* a call that awaited list 1 when it unmounted has ended not-found
C13_Witness ==
  \E n \in orphans :
    /\ navs[n].status = "notfound"
    /\ navs[n].panel \in unmounted
    /\ navs[n].scrolls > 0

\* scrollToMatch has requested scrollToIndex on list p and has not resolved
ScrollInFlight(p) == pendingTargetRef[p] # Null

\* C14: while a programmatic find scroll is in flight on a live list, no step
\* issues a scroll to the bottom of that list.
C14_FollowSuppressed ==
  [][\A p \in Panels :
       (ScrollInFlight(p) /\ follow[p].live) => follow'[p].bottoms = follow[p].bottoms]_vars

\* the find band after the term was cleared or a search found no match
BandCleared == currentSearchTerm = << >> \/ matchCount = 0

OverlaysDeleted == cssCurrent = Null /\ cssAll = {}

\* C15: once the band has deleted both overlays for a cleared term or a term
\* without matches, no step taken while the band stays in that state (a
\* change of the visible range and the callbacks it requests) paints either
\* overlay again.
C15_StaysCleared ==
  [][(BandCleared /\ BandCleared' /\ searchIdRef' = searchIdRef /\ OverlaysDeleted)
       => OverlaysDeleted']_vars

\* C16: whenever a step paints or repaints the current-match overlay, the
\* overlay designates the occurrence the most recent successful navigation on
\* that list resolved (currentHighlightRef, which only a successful navigation
\* sets).
C16_CurrentIsLatest ==
  [][(cssCurrent' # cssCurrent /\ cssCurrent' # Null)
       => cssCurrent' = currentHighlightRef'[cssCurrent'.panelId[1]]]_vars

\* C17: eventSearchText returns a list of strings for every event; it does not
\* throw, and for an unrecognized kind the list is empty.
C17_Total ==
  searchText.done =>
    /\ ~searchText.threw
    /\ searchText.node.event \in {"state", "store"} => searchText.texts = << >>

\* the strings of the truthy fields of a list of fields, in the order of the list
RECURSIVE TruthyFields(_, _)
TruthyFields(fields, k) ==
  IF k > Len(fields) THEN << >>
  ELSE (IF Truthy(fields[k]) THEN <<fields[k][1]>> ELSE << >>)
       \o TruthyFields(fields, k + 1)

\* the order of the fields of the kinds whose fields are plain strings
RefFieldOrder(e) ==
  CASE e.event = "sandbox" -> <<e.cmd, e.file, e.input, e.output>>
    [] e.event = "logger" -> <<e.message.message, e.message.filename>>
    [] e.event = "error" ->
         IF e.error = Missing THEN << >> ELSE <<e.error[1].message, e.error[1].traceback>>
    [] e.event = "score_edit" ->
         <<e.edit.answer, e.edit.explanation>> \o
         (IF e.edit.provenance = Missing THEN << >>
          ELSE <<e.edit.provenance[1].author, e.edit.provenance[1].reason>>)
    [] e.event = "sample_limit" -> <<e.message>>
    [] e.event = "input" -> <<e.input_ansi>>
    [] e.event = "approval" -> <<e.explanation>>

RefPlainKinds ==
  {"sandbox", "logger", "error", "score_edit", "sample_limit", "input", "approval"}

RefLimitTitle(type) ==
  CASE type = "custom" -> "Custom Limit Exceeded"
    [] type = "time" -> "Time Limit Exceeded"
    [] type = "message" -> "Message Limit Exceeded"
    [] type = "token" -> "Token Limit Exceeded"
    [] type = "operator" -> "Operator Canceled"
    [] type = "working" -> "Execution Time Limit Exceeded"
    [] type = "cost" -> "Cost Limit Exceeded"
    [] OTHER -> type

RefDecisionLabel(decision) ==
  CASE decision = "approve" -> "Approved"
    [] decision = "reject" -> "Rejected"
    [] decision = "terminate" -> "Terminated"
    [] decision = "escalate" -> "Escalated"
    [] decision = "modify" -> "Modified"
    [] OTHER -> decision

\* eventSearchText returned for an event whose title is not empty
Titled ==
  /\ searchText.done
  /\ ~searchText.threw
  /\ eventTitle(searchText.node).value # ""

C19_InfoAndSource ==
  (/\ searchText.done
   /\ searchText.node.event = "info"
   /\ Truthy(searchText.node.source)) =>
    \E i, j \in 1..Len(searchText.texts) :
      /\ i # j
      /\ searchText.texts[i] = "Info"
      /\ searchText.texts[j] = searchText.node.source[1]

\* C20: for every step or span_begin event with one of the names generate,
\* my_step, evaluate, init, the strings returned hold "<type>: <name>" when
\* the event has a type and "Step: <name>" when it has none.
C20_StepTitle ==
  (/\ searchText.done
   /\ searchText.node.event \in {"step", "span_begin"}
   /\ searchText.node.name \in Names) =>
    LET e == searchText.node
        expected == IF Truthy(e.type) THEN e.type[1] \o ": " \o e.name
                    ELSE "Step: " \o e.name
    IN \E i \in 1..Len(searchText.texts) : searchText.texts[i] = expected

(***************************************************************************)
(* The scans on their own: countMatches, findNthMatch and the inline scan  *)
(* of countMatchesInData and goToMatchImpl on one string and one term      *)
(***************************************************************************)

MaxText == 4     \* characters of a scanned string
MaxTerm == 2     \* characters of a term
MaxN    == 3     \* largest occurrence number asked of findNthMatch

Letters == {"a", "A", "b"}

\* a scan is called with a string, a non-empty term and an occurrence number
StartScan(text, term, n) ==
  [text |-> text, term |-> term, n |-> n, done |-> FALSE,
   count |-> 0, inline |-> 0, nth |-> Null]

\* countMatches(text, term), findNthMatch(text, term, n) and the inline scan
\* of a transcript whose one item holds the one string text
Scan ==
  /\ ~scan.done
  /\ scan' = [scan EXCEPT
                !.done = TRUE,
                !.count = countMatches(scan.text, scan.term),
                !.inline = countMatchesInData(<< <<scan.text>> >>, scan.term),
                !.nth = findNthMatch(scan.text, scan.term, scan.n)]
  /\ UNCHANGED <<data, dom, matchCounters, goToMatchFns, probe, renderCoordinator, findBand, appended,
                 unregisterFns, unmounted, orphans, follow, searchText, renderQueue,
                 visibleRangeRef, inFrame, engineVars, bandVars>>

\* the caller asks for the next occurrence of the same term
NextOccurrence ==
  /\ scan.done
  /\ scan.n < MaxN
  /\ scan' = StartScan(scan.text, scan.term, scan.n + 1)
  /\ UNCHANGED <<data, dom, matchCounters, goToMatchFns, probe, renderCoordinator, findBand, appended,
                 unregisterFns, unmounted, orphans, follow, searchText, renderQueue,
                 visibleRangeRef, inFrame, engineVars, bandVars>>

InitScan ==
  /\ InitConfig
  /\ follow = [p \in Panels |-> Following(FALSE)]
  /\ searchText = NoText
  /\ renderQueue = NoRender
  /\ renderCoordinator = NoCoordinator
  /\ findBand = "live"
  /\ \E text \in SeqsUpTo(Letters, MaxText) :
       \E term \in SeqsUpTo(Letters, MaxTerm) \ {<< >>} :
         scan = StartScan(text, term, -1)

NextScan ==
  \/ Scan
  \/ NextOccurrence

SpecScan == InitScan /\ [][NextScan]_vars

\* C21: for a string that is already in lower case (the searchable text of
\* the rendered content) and a non-empty term, countMatches returns the
\* number of non-overlapping occurrences of the term, letter case ignored,
\* found from left to right, each scan resuming at the end of the occurrence
\* before; the inline scan of countMatchesInData and goToMatchImpl returns
\* that number for every string, and so the number countMatches returns for
\* the string in lower case.
C21_CountMatches ==
  scan.done =>
    /\ scan.inline = RefCountFrom(scan.text, scan.term, 0)
    /\ countMatches(ToLowerCase(scan.text), scan.term) = scan.inline
    /\ (scan.text = ToLowerCase(scan.text) => scan.count = scan.inline)

\* C21 as stated: countMatches returns the case-insensitive count for every
\* string, and the inline scan returns the same number for the same string.
C21_AnyString ==
  scan.done =>
    /\ scan.count = RefCountFrom(scan.text, scan.term, 0)
    /\ scan.inline = scan.count

\* "aaa" holds "aa" once
C21_Witness ==
  /\ scan.done
  /\ scan.text = <<"a", "a", "a">>
  /\ scan.term = <<"A", "a">>
  /\ scan.count = 1
  /\ scan.inline = 1

\* C22: for a non-empty term, findNthMatch(text, term, n) returns a span
\* exactly when 1 <= n <= countMatches(text, term) and null otherwise (n <= 0
\* included); the span is as long as the term, the text at the span is the
\* term in lower case, and the span of occurrence n + 1 starts at or after
\* the end of the span of occurrence n.
C22_NthMatch ==
  scan.done =>
    LET next == findNthMatch(scan.text, scan.term, scan.n + 1)
    IN /\ (scan.nth # Null) <=> (1 <= scan.n /\ scan.n <= scan.count)
       /\ scan.nth # Null =>
            /\ scan.nth.globalEnd - scan.nth.globalStart = Len(scan.term)
            /\ SubSeq(scan.text, scan.nth.globalStart + 1, scan.nth.globalEnd)
                 = ToLowerCase(scan.term)
            /\ next # Null => next.globalStart >= scan.nth.globalEnd

\* the second "aa" of "aaaa" is the span [2, 4), and there is no third
C22_Witness ==
  /\ scan.done
  /\ scan.text = <<"a", "a", "a", "a">>
  /\ scan.term = <<"A", "a">>
  /\ scan.n = 2
  /\ scan.nth = [globalStart |-> 2, globalEnd |-> 4]
  /\ findNthMatch(scan.text, scan.term, 3) = Null

\* navigation n called scrollToMatch in this step, for an item inside the
\* visible range of its panel
InRangeCall(n) ==
  /\ navs'[n].calls = (IF n <= Len(navs) THEN navs[n].calls ELSE 0) + 1
  /\ InRange(navs'[n].panel, navs'[n].i)

\* C23: a call scrollToMatch(index) with index inside the visible range
\* requests no scroll, writes nothing to pendingTargetRef and starts no
\* timer: it requests one animation frame whose callback resolves the call,
\* and the navigation waits until then.
C23_Step ==
  \A n \in 1..Len(navs') :
    InRangeCall(n) =>
      LET p == navs'[n].panel
          index == navs'[n].i
      IN /\ navs'[n].scrolls = (IF n <= Len(navs) THEN navs[n].scrolls ELSE 0)
         /\ pendingTargetRef'[p] \in {pendingTargetRef[p], Null}
         /\ \A t \in 1..Len(timers') :
              timers'[t] # [panel |-> p, index |-> index, nav |-> n]
         /\ rafQueue' # << >>
         /\ rafQueue'[Len(rafQueue')] = RafResolve(n, p, index)
         /\ navs'[n].status = "wait"

C23_InRange == [][C23_Step]_vars

\* a navigation waits for the frame of its one call, which asked no scroll,
\* while the pending target of its panel belongs to an earlier navigation
C23_Witness ==
  \E n \in 1..Len(navs) :
    /\ navs[n].status = "wait"
    /\ navs[n].calls = 1
    /\ navs[n].scrolls = 0
    /\ \E c \in 1..Len(rafQueue) : rafQueue[c] = RafResolve(n, navs[n].panel, navs[n].i)
    /\ pendingTargetRef[navs[n].panel] # Null
    /\ pendingTargetRef[navs[n].panel].nav # n

\* the oldest timer runs in this step and ends the wait of the navigation
\* that started it, which is still the current one of its panel
TimedOut ==
  /\ timers # << >>
  /\ \A t \in 1..Len(timers') : timers'[t] # Head(timers)
  /\ LET t == Head(timers)
     IN /\ pendingTargetRef[t.panel] # Null
        /\ pendingTargetRef[t.panel].index = t.index
        /\ navs[t.nav].status = "wait"
        /\ navs[t.nav].panel = t.panel
        /\ navs[t.nav].i = t.index
        /\ navs[t.nav].token = navTokenRef[t.panel]

\* C24: when the wait of scrollToMatch ends by the timeout, the navigation
\* goes on as after any wait: goToMatchImpl counts the occurrences of the
\* rendered item and, when the rendered item holds the wanted occurrence,
\* highlights it and returns found; when it does not, the occurrences
\* counted are taken off the budget and the next item that passes
\* searchInItem is scrolled to (or the list is left when there is none).
C24_Step ==
  TimedOut =>
    LET n == Head(timers).nav
        nav == navs[n]
        p == nav.panel
        domMatches == countMatchesInPanel(p, nav.i, nav.term)
        j == NextCandidate(data[p], nav.term, nav.i)
    IN IF nav.occ <= domMatches /\ HighlightFound(p, nav.i, nav.term, nav.occ)
       THEN /\ navs'[n].status = "found"
            /\ cssCurrent' = Span(p, nav.i, nav.term, nav.occ)
       ELSE /\ navs'[n].occ = nav.occ - domMatches
            /\ j # -1 => /\ navs'[n].status = "wait"
                         /\ navs'[n].i = j
                         /\ navs'[n].calls = nav.calls + 1
            /\ j = -1 => navs'[n].pos > nav.pos

C25_Step ==
  \A n \in 1..Len(navs) :
    (n < Len(navs) /\ StaleOn(n) /\ navs'[n] # navs[n]) =>
      /\ navs'[n].status = "notfound"
      /\ navTokenRef' = navTokenRef
      /\ activeSearchTermRef' = activeSearchTermRef
      /\ cssCurrent' = cssCurrent

C25_SupersededStops == [][C25_Step]_vars

\* the first of two dispatches entered list 2 after the second had been
\* there, and its occurrence is the highlight of list 2
C25_Witness ==
  /\ Len(navs) = 2
  /\ navs[1].status = "found"
  /\ navs[1].panel = 2
  /\ navs[1].token = 2
  /\ navTokenRef[2] = 2
  /\ cssCurrent = Span(2, navs[1].i, navs[1].term, navs[1].occ)

\* C26: the timeout of a scrollToMatch call takes the pending target of its
\* list only when the target is its own: a timer that runs while the pending
\* target belongs to another (later) navigation leaves it in place, so that
\* the latest navigation on the list is still resolved and returns.
C26_Step ==
  (/\ timers # << >>
   /\ \A t \in 1..Len(timers') : timers'[t] # Head(timers)
   /\ pendingTargetRef[Head(timers).panel] # Null
   /\ pendingTargetRef[Head(timers).panel].nav # Head(timers).nav)
    => pendingTargetRef'[Head(timers).panel] = pendingTargetRef[Head(timers).panel]

C26_OwnTargetOnly == [][C26_Step]_vars

\* every timer has run and every frame is over, and the latest navigation on
\* a list still waits: nothing is left that resolves it
C26_Witness ==
  /\ timers = << >>
  /\ rafQueue = << >>
  /\ \E n \in 1..Len(navs) :
       /\ Latest(n)
       /\ pendingTargetRef[navs[n].panel] = Null

(***************************************************************************)
(* Find on a running transcript whose user had scrolled up: followOutput   *)
(* is off when the search is issued                                        *)
(***************************************************************************)

\* a running transcript that does not follow its output
InitFollowOff ==
  /\ InitConfig
  /\ follow = [p \in Panels |-> [Following(TRUE) EXCEPT !.followOutput = FALSE]]
  /\ searchText = NoText
  /\ scan = NoScan
  /\ renderQueue = NoRender
  /\ renderCoordinator = NoCoordinator
  /\ findBand = "live"

\* the scroll events that follow the search: those of the scroll to the
\* match and those of the user
ScrollAfterFind(p, isAtBottom) ==
  /\ searchIdRef > 0
  /\ handleScroll(p, isAtBottom)

NextFollowOff ==
  \/ EngineNext
  \/ /\ searchIdRef < MaxFollowSearches
     /\ \/ \E term \in BoxTerms : Type(term)
        \/ \E back \in BOOLEAN : Press(back)
  \/ \E p \in Panels : heightChanged(p)
  \/ \E p \in Panels : HeightFrame(p)
  \/ \E p \in Panels : \E isAtBottom \in BOOLEAN : ScrollAfterFind(p, isAtBottom)

SpecFollowOff == InitFollowOff /\ [][NextFollowOff]_vars

\* C27: a live list whose followOutput was off when the find navigation was
\* issued still has it off after the navigation has found its match there,
\* wherever the list is scrolled to.
C27_StaysOff ==
  \A p \in Panels :
    (\E n \in 1..Len(navs) : navs[n].status = "found" /\ navs[n].panel = p)
      => ~follow[p].followOutput

\* the list follows its output again and has scrolled itself to the bottom
C27_Witness ==
  \E p \in Panels :
    /\ \E n \in 1..Len(navs) : navs[n].status = "found" /\ navs[n].panel = p
    /\ follow[p].followOutput
    /\ follow[p].bottoms > 0

(***************************************************************************)
(* The follow state on its own: lists that are live or not, height         *)
(* changes, their animation frames and scroll events; every animation      *)
(* frame requested runs                                                    *)
(***************************************************************************)

InitScroll ==
  /\ InitConfig
  /\ follow \in [Panels -> {Following(TRUE), Following(FALSE)}]
  /\ searchText = NoText
  /\ scan = NoScan
  /\ renderQueue = NoRender
  /\ renderCoordinator = NoCoordinator
  /\ findBand = "live"

NextScroll ==
  \/ \E p \in Panels : heightChanged(p)
  \/ \E p \in Panels : HeightFrame(p)
  \/ \E p \in Panels : \E isAtBottom \in BOOLEAN : handleScroll(p, isAtBottom)

SpecScroll ==
  /\ InitScroll
  /\ [][NextScroll]_vars
  /\ \A p \in Panels : WF_vars(HeightFrame(p))

\* no step changes followOutput of a list that is auto scrolling or not live
C28_Step ==
  \A p \in Panels :
    (follow[p].isAutoScrollingRef \/ ~follow[p].live)
      => follow'[p].followOutput = follow[p].followOutput

\* the animation frame that ends the auto scroll of list p is requested
EndRequested(p) ==
  \E c \in 1..Len(follow[p].raf) : follow[p].raf[c].kind = "end"

\* C28: while isAutoScrollingRef is true no scroll event changes
\* followOutput, and no scroll event changes followOutput of a list that is
\* not live; while the flag is true the animation frame that clears it is
\* requested, and the flag is false again once that frame has run.
C28_AutoScroll ==
  /\ [][C28_Step]_vars
  /\ [](\A p \in Panels : follow[p].isAutoScrollingRef => EndRequested(p))
  /\ \A p \in Panels : follow[p].isAutoScrollingRef ~> ~follow[p].isAutoScrollingRef

\* one list is auto scrolling, the other is not live
C28_Witness ==
  \E p, q \in Panels :
    /\ follow[p].isAutoScrollingRef
    /\ follow[p].followOutput
    /\ EndRequested(p)
    /\ ~follow[q].live

(***************************************************************************)
(* The find band on a transcript whose first items, all in the range       *)
(* Virtuoso reports first, hold together more occurrences of the term      *)
(* than the all-matches overlay is meant to hold                           *)
(***************************************************************************)

ManyPerItem == 50    \* occurrences of a in each item of the long transcript
ManyVisible == 11    \* items of the long transcript, all in its first range

\* one string of ManyPerItem letters a
itMany == << [c \in 1..ManyPerItem |-> "a"] >>

ManyData == [i \in 1..ManyVisible |-> itMany]

InitOverlay ==
  /\ \/ /\ \E c \in Configs :
             /\ data = [p \in Panels |-> c.data[p]]
             /\ dom = [p \in Panels |->
                         [i \in 1..Len(c.data[p]) |-> Rendered(c.data[p][i], c.mode[p][i])]]
        /\ visibleRangeRef = [p \in Panels |-> InitRange(Len(data[p]))]
     \/ /\ data = [p \in Panels |-> IF p = 1 THEN ManyData ELSE << >>]
        /\ dom = [p \in Panels |-> [i \in 1..Len(data[p]) |-> Rendered(data[p][i], "full")]]
        /\ visibleRangeRef =
             [p \in Panels |->
                IF p = 1 THEN [startIndex |-> 0, endIndex |-> ManyVisible - 1]
                ELSE InitRange(0)]
  /\ probe = << >>
  /\ InitRefs
  /\ follow = [p \in Panels |-> Following(FALSE)]
  /\ searchText = NoText
  /\ scan = NoScan
  /\ renderQueue = NoRender
  /\ renderCoordinator = NoCoordinator
  /\ findBand = "live"

\* The find band on a list that stays where it is: the timers and the
\* animation frames of the navigations run, Virtuoso reports no new range.
NextOverlay ==
  \/ TimerFire
  \/ Frame
  \/ /\ searchIdRef < MaxSearches
     /\ \/ \E term \in BoxTerms : Type(term)
        \/ \E back \in BOOLEAN : Press(back)

SpecOverlay == InitOverlay /\ [][NextOverlay]_vars

\* C29: the all-matches overlay never holds more than the maximum span
\* count, however many occurrences the items in the visible range hold.
C29_Bounded == Cardinality(cssAll) <= MaxHighlightRanges

\* the overlay holds every occurrence of the items in the visible range but
\* the current one
C29_Witness ==
  /\ cssCurrent # Null
  /\ Cardinality(cssAll) = ManyVisible * ManyPerItem - 1
  /\ cssCurrent \notin cssAll
  /\ \A r \in cssAll : InRange(r.panelId[1], r.panelId[2])

(***************************************************************************)
(* MarkdownRenderQueue: enqueue, the cancel function it returns, the end   *)
(* of a running task, and processQueue                                     *)
(***************************************************************************)

MaxConcurrent == 2   \* maxConcurrent of the queue
MaxTasks      == 4   \* tasks enqueued in one run
MaxCancels    == 2   \* calls of cancel functions in one run

\* the state of a task whose wrappedTask has been called: a wrappedTask
\* whose own cancelled flag is set returns at once without calling the task
Started(task) == IF task.cancelled THEN "skipping" ELSE "running"

\* processQueue without its limit: the next entry is started whatever
\* activeCount is
RECURSIVE processQueue_NoLimit(_)
processQueue_NoLimit(rq) ==
  IF rq.queue = << >> THEN rq
  ELSE LET task == Head(rq.queue)
           shifted == [rq EXCEPT !.queue = Tail(@)]
       IN IF task.cancelled
          THEN processQueue_NoLimit(
                 [shifted EXCEPT !.tasks[task.id].state = "dropped"])
          ELSE [shifted EXCEPT !.activeCount = @ + 1,
                               !.tasks[task.id].state = Started(rq.tasks[task.id])]

\* processQueue(): nothing when activeCount has reached maxConcurrent or the
\* queue is empty; else the entries marked cancelled are shifted out and
\* dropped, and the first other entry is started: activeCount++ and its
\* wrappedTask is called. The finally clause (Ended) runs when it returns.
RECURSIVE processQueue(_)
processQueue(rq) ==
  IF rq.activeCount >= MaxConcurrent \/ rq.queue = << >> THEN rq
  ELSE LET task == Head(rq.queue)
           shifted == [rq EXCEPT !.queue = Tail(@)]
       IN IF task.cancelled
          THEN processQueue([shifted EXCEPT !.tasks[task.id].state = "dropped"])
          ELSE [shifted EXCEPT !.activeCount = @ + 1,
                               !.tasks[task.id].state = Started(rq.tasks[task.id])]

\* the queue after enqueue(task): the task is pushed and processQueue runs
Enqueued(rq) ==
  processQueue(
    [rq EXCEPT !.tasks = Append(@, [cancelled |-> FALSE, state |-> "queued"]),
               !.queue = Append(@, [id |-> Len(rq.tasks) + 1, cancelled |-> FALSE])])

\* enqueue(task)
enqueue ==
  /\ Len(renderQueue.tasks) < MaxTasks
  /\ renderQueue' = Enqueued(renderQueue)
  /\ UNCHANGED <<data, dom, matchCounters, goToMatchFns, probe, renderCoordinator, findBand, scan, appended,
                 unregisterFns, unmounted, orphans, follow, searchText,
                 visibleRangeRef, inFrame, engineVars, bandVars>>

\* this.queue.findIndex((t) => !t.cancelled), 1-based, 0 for -1
FirstNotCancelled(queue) ==
  LET open == {i \in 1..Len(queue) : ~queue[i].cancelled}
  IN IF open = {} THEN 0 ELSE CHOOSE i \in open : \A j \in open : i <= j

\* the queue after the cancel function of task id has run
Cancelled(rq, id) ==
  LET index == FirstNotCancelled(rq.queue)
      rq1 == [rq EXCEPT !.tasks[id].cancelled = TRUE, !.cancels = @ + 1]
  IN IF index # 0 THEN [rq1 EXCEPT !.queue[index].cancelled = TRUE] ELSE rq1

\* the cancel function enqueue returned for task id
cancel(id) ==
  /\ id \in 1..Len(renderQueue.tasks)
  /\ renderQueue.cancels < MaxCancels
  /\ renderQueue' = Cancelled(renderQueue, id)
  /\ UNCHANGED <<data, dom, matchCounters, goToMatchFns, probe, renderCoordinator, findBand, scan, appended,
                 unregisterFns, unmounted, orphans, follow, searchText,
                 visibleRangeRef, inFrame, engineVars, bandVars>>

\* a task whose wrappedTask has been called and has not returned
Active(task) == task.state \in {"running", "skipping"}

\* the queue after the wrappedTask of task id has returned: the finally
\* clause of processQueue
Ended(rq, id) ==
  processQueue(
    [rq EXCEPT !.tasks[id].state = IF @ = "skipping" THEN "skipped"
                                   ELSE IF rq.tasks[id].cancelled
                                   THEN "unsettled" ELSE "settled",
               !.activeCount = @ - 1])

\* the promise of the running task id settles: wrappedTask resolves or
\* rejects the promise of enqueue unless the task was cancelled, and the
\* finally clause of processQueue runs
TaskEnds(id) ==
  /\ id \in 1..Len(renderQueue.tasks)
  /\ Active(renderQueue.tasks[id])
  /\ renderQueue' = Ended(renderQueue, id)
  /\ UNCHANGED <<data, dom, matchCounters, goToMatchFns, probe, renderCoordinator, findBand, scan, appended,
                 unregisterFns, unmounted, orphans, follow, searchText,
                 visibleRangeRef, inFrame, engineVars, bandVars>>

InitQueue ==
  /\ InitConfig
  /\ follow = [p \in Panels |-> Following(FALSE)]
  /\ searchText = NoText
  /\ scan = NoScan
  /\ renderQueue = NoRender
  /\ renderCoordinator = NoCoordinator
  /\ findBand = "live"

NextQueue ==
  \/ enqueue
  \/ \E id \in 1..MaxTasks : cancel(id)
  \/ \E id \in 1..MaxTasks : TaskEnds(id)

SpecQueue == InitQueue /\ [][NextQueue]_vars

\* C30: a task the queue drops without running it is a task whose own
\* cancel function was called; the cancel function of one task never makes
\* the queue skip another.
C30_OnlyOwnTask ==
  \A id \in 1..Len(renderQueue.tasks) :
    renderQueue.tasks[id].state = "dropped" => renderQueue.tasks[id].cancelled

\* the queue is empty and idle, and a task nobody cancelled was never run:
\* its promise stays pending
C30_Witness ==
  /\ renderQueue.queue = << >>
  /\ renderQueue.activeCount = 0
  /\ \E id \in 1..Len(renderQueue.tasks) :
       /\ renderQueue.tasks[id].state = "dropped"
       /\ ~renderQueue.tasks[id].cancelled

\* ---------------------------------------------------------------------
\* MarkdownRenderCoordinator (MarkdownDiv.tsx 275-337) and the effect of
\* MarkdownDiv that uses it (52-122).  The coordinator owns its queue, so
\* call number id of coordinator.enqueue is task number id of the queue.
\* completedResults[key] is the call whose task produced the html stored
\* under key (0: no entry); pendingCallbacks[key] is the call whose
\* onComplete is stored under key (0: no entry).  renderCache is the module
\* level cache the onComplete of the effect writes.
\* ---------------------------------------------------------------------

\* coordinator.enqueue(cacheKey, task, onComplete), called by the effect
\* when the key is not in the render cache.  Microtasks run before the next
\* effect, so no flush is scheduled when the effect runs.
CoordEnqueue(cacheKey) ==
  /\ Len(renderCoordinator.calls) < MaxTasks
  /\ ~renderCoordinator.flushScheduled
  /\ cacheKey \notin renderCoordinator.renderCache
  /\ LET id == Len(renderCoordinator.calls) + 1
     IN renderCoordinator' =
          [renderCoordinator EXCEPT
             !.pendingCallbacks[cacheKey] = id,
             !.calls = Append(@, [cacheKey |-> cacheKey, cancelled |-> FALSE,
                                  threw |-> FALSE, completions |-> 0,
                                  result |-> 0])]
  /\ renderQueue' = Enqueued(renderQueue)
  /\ UNCHANGED <<data, dom, matchCounters, goToMatchFns, probe, findBand, scan, appended,
                 unregisterFns, unmounted, orphans, follow, searchText,
                 visibleRangeRef, inFrame, engineVars, bandVars>>

\* the task of call id ends, with a result or with an exception.  When its
\* cancel was not called the promise settles: then() stores the result and
\* schedules the flush, catch() deletes the callback stored under the key.
CoordTaskEnds(id, threw) ==
  /\ id \in 1..Len(renderQueue.tasks)
  /\ Active(renderQueue.tasks[id])
  /\ threw => renderQueue.tasks[id].state = "running"
  /\ renderQueue' = Ended(renderQueue, id)
  /\ LET key == renderCoordinator.calls[id].cacheKey
         rc == [renderCoordinator EXCEPT !.calls[id].threw = threw]
     IN renderCoordinator' =
          IF renderQueue.tasks[id].cancelled THEN rc
          ELSE IF threw THEN [rc EXCEPT !.pendingCallbacks[key] = 0]
          ELSE [rc EXCEPT !.completedResults[key] = id, !.flushScheduled = TRUE]
  /\ UNCHANGED <<data, dom, matchCounters, goToMatchFns, probe, findBand, scan, appended,
                 unregisterFns, unmounted, orphans, follow, searchText,
                 visibleRangeRef, inFrame, engineVars, bandVars>>

\* flush(): every stored result is handed to the callback stored under its
\* key, when there is one, and the callback is deleted; onComplete of the
\* effect writes the render cache
flush ==
  /\ renderCoordinator.flushScheduled
  /\ LET batch == {key \in CacheKeys : renderCoordinator.completedResults[key] # 0}
         called == {key \in batch : renderCoordinator.pendingCallbacks[key] # 0}
         owner(key) == renderCoordinator.pendingCallbacks[key]
     IN renderCoordinator' =
          [renderCoordinator EXCEPT
             !.flushScheduled = FALSE,
             !.completedResults = [key \in CacheKeys |-> 0],
             !.pendingCallbacks =
                [key \in CacheKeys |-> IF key \in called THEN 0 ELSE @[key]],
             !.renderCache = @ \cup called,
             !.calls =
                [id \in DOMAIN renderCoordinator.calls |->
                   LET call == renderCoordinator.calls[id]
                   IN IF \E key \in called : owner(key) = id
                      THEN [call EXCEPT
                              !.completions = @ + 1,
                              !.result =
                                 renderCoordinator.completedResults[call.cacheKey]]
                      ELSE call]]
  /\ UNCHANGED <<data, dom, matchCounters, goToMatchFns, probe, findBand, scan, appended,
                 unregisterFns, unmounted, orphans, follow, searchText,
                 renderQueue, visibleRangeRef, inFrame, engineVars, bandVars>>

\* the cancel function coordinator.enqueue returned for call id; the effect
\* calls it once, in its cleanup
CoordCancel(id) ==
  /\ id \in 1..Len(renderCoordinator.calls)
  /\ ~renderCoordinator.calls[id].cancelled
  /\ ~renderCoordinator.flushScheduled
  /\ renderQueue.cancels < MaxCancels
  /\ renderQueue' = Cancelled(renderQueue, id)
  /\ LET key == renderCoordinator.calls[id].cacheKey
     IN renderCoordinator' =
          [renderCoordinator EXCEPT
             !.calls[id].cancelled = TRUE,
             !.pendingCallbacks[key] = 0,
             !.completedResults[key] = 0]
  /\ UNCHANGED <<data, dom, matchCounters, goToMatchFns, probe, findBand, scan, appended,
                 unregisterFns, unmounted, orphans, follow, searchText,
                 visibleRangeRef, inFrame, engineVars, bandVars>>

NextCoordinator ==
  \/ \E cacheKey \in CacheKeys : CoordEnqueue(cacheKey)
  \/ \E id \in 1..MaxTasks, threw \in BOOLEAN : CoordTaskEnds(id, threw)
  \/ flush
  \/ \E id \in 1..MaxTasks : CoordCancel(id)

SpecCoordinator == InitQueue /\ [][NextCoordinator]_vars

\* C31: once the task of a coordinator.enqueue call has ended with a result
\* and the flush has run, the onComplete of that call has been invoked
\* exactly once with the result of its task, provided the cancel function of
\* that call was never called; no onComplete is ever invoked twice.
C31_OwnCallbackOnce ==
  \A id \in 1..Len(renderCoordinator.calls) :
    LET call == renderCoordinator.calls[id]
    IN /\ call.completions <= 1
       /\ ( /\ ~call.cancelled
            /\ ~call.threw
            /\ renderQueue.tasks[id].state = "settled"
            /\ ~renderCoordinator.flushScheduled )
          => (call.completions = 1 /\ call.result = id)

\* two calls with the same cacheKey, no cancel function ever called, no
\* task threw, every task has ended and the flush has run: the first call
\* was never completed
C31_Witness ==
  /\ renderQueue.cancels = 0
  /\ Len(renderCoordinator.calls) = 2
  /\ renderCoordinator.calls[1].cacheKey = renderCoordinator.calls[2].cacheKey
  /\ \A id \in 1..2 : /\ renderQueue.tasks[id].state = "settled"
                      /\ ~renderCoordinator.calls[id].threw
  /\ ~renderCoordinator.flushScheduled
  /\ renderCoordinator.calls[1].completions = 0

\* the number of tasks of the queue whose wrappedTask has been called and has
\* not returned
ActiveTasks(rq) == Cardinality({id \in 1..Len(rq.tasks) : Active(rq.tasks[id])})

\* C32: the queue never runs more than maxConcurrent tasks at once:
\* activeCount is the number of started tasks that have not ended, it stays
\* between 0 and maxConcurrent, and it is 0 when every started task has
\* ended, with a result or with an exception.
C32_AtMostMaxConcurrent ==
  /\ renderQueue.activeCount = ActiveTasks(renderQueue)
  /\ renderQueue.activeCount >= 0
  /\ renderQueue.activeCount <= MaxConcurrent
  /\ (\A id \in 1..Len(renderQueue.tasks) : ~Active(renderQueue.tasks[id]))
       => renderQueue.activeCount = 0

\* a task has thrown, and the queue again runs maxConcurrent tasks while
\* another task waits
C32_Witness ==
  /\ \E id \in 1..Len(renderCoordinator.calls) : renderCoordinator.calls[id].threw
  /\ renderQueue.activeCount = MaxConcurrent
  /\ \E n \in 1..Len(renderQueue.queue) : ~renderQueue.queue[n].cancelled

(***************************************************************************)
(* The older find band (FindBand.tsx): it keeps the list of match          *)
(* locations of the term, cached by term, and steps through it.  The band  *)
(* variables hold its state: matchIndexRef is currentMatchIndexRef and     *)
(* cachedCount is the term and the length of cachedMatches.  The lists'    *)
(* match indexers are outside this model: a fresh list has any length up   *)
(* to MaxLocations.                                                        *)
(***************************************************************************)

MaxLegacySearches == 4   \* SpecBands: handleSearch calls of the older band
MaxLocations      == 3   \* SpecBands: match locations of a term

\* FindBand.handleSearch(back) of the older band, the find input holding
\* searchTerm and getAllMatchLocations returning fresh locations for a term
\* that is not cached
LegacyHandleSearch(searchTerm, back, fresh) ==
  /\ searchIdRef' = searchIdRef + 1
  /\ lastBack' = back
  /\ IF searchTerm = << >>
     THEN /\ matchCount' = NoCount
          /\ currentMatchIndex' = 0
          /\ UNCHANGED <<currentSearchTerm, matchIndexRef, cachedCount>>
     ELSE LET termChanged == currentSearchTerm # searchTerm
              ref == IF termChanged THEN 0 ELSE matchIndexRef
              cached == IF termChanged THEN [term |-> << >>, count |-> 0]
                        ELSE cachedCount
              total == IF cached.term = searchTerm THEN cached.count ELSE fresh
              targetIndex0 == LegacyTargetIndex0(termChanged, ref, back, total)
          IN /\ currentSearchTerm' = searchTerm
             /\ cachedCount' = [term |-> searchTerm, count |-> total]
             /\ matchCount' = total
             /\ IF total = 0
                THEN /\ currentMatchIndex' = 0
                     /\ matchIndexRef' = ref
                ELSE /\ currentMatchIndex' = targetIndex0 + 1
                     /\ matchIndexRef' = targetIndex0 + 1
  /\ UNCHANGED <<fixedVars, visibleRangeRef, inFrame, engineVars>>

\* the user edits the find input of the older band
LegacyType(term) ==
  /\ term \in BoxTerms
  /\ term # searchBox
  /\ searchBox' = term
  /\ \E fresh \in 0..MaxLocations : LegacyHandleSearch(term, FALSE, fresh)

\* next or previous in the older band
LegacyPress(back) ==
  /\ UNCHANGED searchBox
  /\ \E fresh \in 0..MaxLocations : LegacyHandleSearch(searchBox, back, fresh)

\* either find band on the transcript of a finished sample
InitBands ==
  /\ InitConfig
  /\ follow = [p \in Panels |-> Following(FALSE)]
  /\ searchText = NoText
  /\ scan = NoScan
  /\ renderQueue = NoRender
  /\ renderCoordinator = NoCoordinator
  /\ findBand \in {"live", "legacy"}

NextBands ==
  \/ /\ findBand = "live"
     /\ Next
  \/ /\ findBand = "legacy"
     /\ searchIdRef < MaxLegacySearches
     /\ \/ \E term \in BoxTerms : LegacyType(term)
        \/ \E back \in BOOLEAN : LegacyPress(back)

SpecBands == InitBands /\ [][NextBands]_vars

\* C33: the match index the find band shows is 0 when the find input is
\* empty or the term has no match (the count shown is then none or 0);
\* otherwise it is at least 1 and at most the match count shown, whatever
\* sequence of next, previous and term changes led there.
C33_IndexInRange ==
  /\ (searchIdRef > 0 /\ searchBox = << >>)
       => (matchCount = NoCount /\ currentMatchIndex = 0)
  /\ IF matchCount = NoCount \/ matchCount = 0
     THEN currentMatchIndex = 0
     ELSE currentMatchIndex >= 1 /\ currentMatchIndex <= matchCount
  /\ (searchIdRef > 0 /\ searchBox # << >>) => matchCount # NoCount

\* previous pressed on the first of several matches: the index wraps to the
\* count
C33_Witness ==
  /\ findBand = "live"
  /\ searchIdRef = 2
  /\ lastBack
  /\ matchCount >= 2
  /\ currentMatchIndex = matchCount

\* the same call of goToMatchImpl before and after a step: navigation n is
\* on the same list with the same token
SameCall(n) ==
  /\ navs[n].panel # 0
  /\ navs'[n].panel = navs[n].panel
  /\ navs'[n].token = navs[n].token

\* phase 2 of a call of goToMatchImpl keeps the item data-level resolution
\* selected, and moves only to an item of higher index, with one more wait
C34_Step ==
  \A n \in 1..Len(navs) :
    SameCall(n) =>
      /\ navs'[n].targetIdx = navs[n].targetIdx
      /\ \/ navs'[n].i = navs[n].i /\ navs'[n].waits = navs[n].waits
         \/ navs'[n].i > navs[n].i /\ navs'[n].waits = navs[n].waits + 1

\* a navigation that becomes found has highlighted an occurrence in the item
\* it was waiting for
C34_Highlight ==
  \A n \in 1..Len(navs) :
    (navs[n].status = "wait" /\ navs'[n].status = "found") =>
      /\ cssCurrent' # Null
      /\ cssCurrent'.panelId = <<navs'[n].panel, navs'[n].i>>

\* C34: goToMatchImpl never highlights an occurrence in an item before the
\* item data-level resolution selected: phase 2 visits the resolved item and
\* then only items of strictly higher index, each at most once, so a call
\* waits for visibility at most data.length - targetIdx times.
C34_OnlyForward ==
  /\ [][C34_Step /\ C34_Highlight]_vars
  /\ [](\A n \in 1..Len(navs) :
          navs[n].panel # 0 =>
            /\ navs[n].targetIdx >= 0
            /\ navs[n].i >= navs[n].targetIdx
            /\ navs[n].i < Len(data[navs[n].panel])
            /\ navs[n].waits >= 1
            /\ navs[n].waits <= navs[n].i - navs[n].targetIdx + 1
            /\ navs[n].waits <= Len(data[navs[n].panel]) - navs[n].targetIdx)

\* a navigation waited twice on one list and highlighted an occurrence in an
\* item after the resolved one
C34_Witness ==
  \E n \in 1..Len(navs) :
    /\ navs[n].status = "found"
    /\ navs[n].waits = 2
    /\ navs[n].i > navs[n].targetIdx
    /\ cssCurrent # Null
    /\ cssCurrent.panelId = <<navs[n].panel, navs[n].i>>

\* the function registered for id in a registry, 0 when there is none
RegisteredFn(reg, id) ==
  IF EntriesOf(reg, id) = {} THEN 0
  ELSE reg[CHOOSE c \in EntriesOf(reg, id) : TRUE].fn

\* the registration a call of an unregister function leaves alone: that of
\* the same id with a function other than the one the call's registration made
Newer(reg, reg2, registry) ==
  LET h == unregisterFns'.called
  IN (h.registry = registry /\ unregisterFns.called # h
        /\ RegisteredFn(reg, h.id) \notin {0, h.fn})
       => RegisteredFn(reg2, h.id) = RegisteredFn(reg, h.id)

\* C35: a call of the unregister function of an earlier registration of an
\* id, made after the id was registered again with a new function, leaves the
\* newer registration in its registry.
C35_NewerStays ==
  [][/\ Newer(matchCounters, matchCounters', "count")
     /\ Newer(goToMatchFns, goToMatchFns', "goTo")]_vars

\* the unregister function of the first registration of list 1 was called
\* while list 1 was registered with the function of a later render, and
\* list 1 is no longer registered
C35_Witness ==
  /\ unregisterFns.called = [registry |-> "count", id |-> 1, fn |-> Len(data[1])]
  /\ Entry(1, MaxRender) \in unregisterFns.count
  /\ MaxRender # Len(data[1])
  /\ Len(matchCounters) = 2
  /\ RegisteredFn(matchCounters, 1) = 0

\* a call of handleSearch that starts a navigation has shown the index it
\* hands to goToMatch, within the count it shows, when goToMatch is called
C36_Committed ==
  Len(navs') > Len(navs) =>
    LET nav == navs'[Len(navs')]
    IN nav.src = "band" =>
         /\ currentMatchIndex' = nav.k
         /\ matchIndexRef' = nav.k
         /\ matchCount' >= nav.k
         /\ cachedCount'.term = nav.term

\* a step that is not a call of handleSearch leaves the index and the count
C36_Kept ==
  searchIdRef' = searchIdRef
    => UNCHANGED <<currentMatchIndex, matchIndexRef, matchCount>>

\* C36: the find band shows the new match index before the navigation runs
\* and never takes it back: when goToMatch ends not-found or the navigation
\* is superseded, the index and the count keep what that handleSearch set.
C36_NotRolledBack == [][C36_Committed /\ C36_Kept]_vars

\* the navigation of the last search ended not-found, and the band still
\* shows the index that search set
C36_Witness ==
  /\ Len(navs) >= 1
  /\ navs[Len(navs)].src = "band"
  /\ navs[Len(navs)].status = "notfound"
  /\ navs[Len(navs)].calls >= 1
  /\ currentMatchIndex = navs[Len(navs)].k
  /\ matchCount >= currentMatchIndex

\* one turn of a scan loop over text advances: the position after the
\* occurrence indexOf finds from pos is beyond pos
Advances(text, lower) ==
  \A pos \in 0..Len(text) :
    LET nextPos == IndexOf(text, lower, pos)
    IN nextPos # -1 => nextPos + Len(lower) > pos

\* the terms the engine scans with and no guard in between: those of the
\* navigations a list accepted, of the highlights the lists remember and of
\* the re-anchoring frames requested
ScanTerms ==
  {navs[n].term : n \in {m \in 1..Len(navs) : navs[m].panel # 0}}
  \cup {currentHighlightRef[p].term : p \in {q \in Panels : currentHighlightRef[q] # Null}}
  \cup {rafQueue[c].term : c \in {d \in 1..Len(rafQueue) : rafQueue[d].kind = "reanchor"}}
  \cup {rafQueue[c].highlight.term :
          c \in {d \in 1..Len(rafQueue) : /\ rafQueue[d].kind = "reanchor"
                                          /\ rafQueue[d].highlight # Null}}
  \cup {activeSearchTermRef[p] : p \in {q \in Panels : navTokenRef[q] > 0}}

\* C37: the engine never scans with an empty term: the entry points return
\* at once on an empty term (countMatchesInData, countAllMatches,
\* goToMatchImpl, rebuildVisibleHighlights), no empty term is stored where a
\* later scan reads it (navigations, highlights, re-anchoring frames), and
\* with the terms it does scan with every turn of a scan loop over a
\* rendered text advances.
C37_NoEmptyTermScan ==
  /\ << >> \notin ScanTerms
  /\ \A p \in Panels :
       /\ countMatchesInData(data[p], << >>) = 0
       /\ Rejected(data[p], << >>, 1)
       /\ rebuildVisibleHighlights(Cur, p, << >>, Null) = Cur
  /\ countAllMatches(<< >>) = 0
  /\ \A r \in cssAll \cup ({cssCurrent} \ {Null}) : r.term # << >>
  /\ \A term \in ScanTerms : \A p \in Panels : \A i \in 1..Len(dom[p]) :
       Advances(dom[p][i], ToLowerCase(term))

\* goToMatch was called with an empty term on lists that hold a text on
\* which a scan with the empty term would not advance: every list returned
\* at once, no token was taken and nothing was awaited
C37_Witness ==
  /\ \E n \in 1..Len(navs) :
       /\ navs[n].term = << >>
       /\ navs[n].k >= 1
       /\ navs[n].status = "notfound"
       /\ navs[n].panel = 0
       /\ navs[n].calls = 0
  /\ \E p \in Panels : \E i \in 1..Len(dom[p]) :
       Len(dom[p][i]) > 0 /\ ~Advances(dom[p][i], << >>)
  /\ \E n \in 1..Len(navs) : navs[n].panel # 0

MaxDirect == 2   \* SpecDirect: calls of goToMatch

\* Callers of useExtendedFind().goToMatch drive the engine with any term and
\* any index.
NextDirect ==
  \/ EngineNext
  \/ /\ Len(navs) < MaxDirect
     /\ \E term \in BoxTerms : \E k \in 0..MaxK : GoToMatchDirect(term, k)

SpecDirect == Init /\ [][NextDirect]_vars

\* the place of list p in goToMatchFns, 0 when it is not registered
PlaceOf(p) ==
  IF EntriesOf(goToMatchFns, p) = {} THEN 0
  ELSE CHOOSE c \in EntriesOf(goToMatchFns, p) : TRUE

\* the navigations whose goToMatch loop called goToMatchImpl of list p in
\* this step
Calling(p) ==
  {n \in 1..Len(navs') :
     /\ PlaceOf(p) # 0
     /\ (IF n <= Len(navs) THEN navs[n].pos ELSE 0) < PlaceOf(p)
     /\ PlaceOf(p) <= navs'[n].pos}

\* a call goToMatchImpl of list p returns from at once
RejectedUpFront(p, n) ==
  Len(data[p]) = 0 \/ navs'[n].term = << >> \/ navs'[n].k < 1

\* the navigations waiting on list p with its current token
InFlight(p) ==
  {n \in 1..Len(navs) :
     /\ navs[n].status = "wait"
     /\ navs[n].panel = p
     /\ navs[n].token = navTokenRef[p]}

C38_Calls ==
  \A p \in Panels :
    LET accepted == {n \in Calling(p) : ~RejectedUpFront(p, n)}
    IN /\ navTokenRef'[p] = navTokenRef[p] + Cardinality(accepted)
       /\ Cardinality(accepted) <= 1
       /\ \A n \in accepted : navs'[n].panel = p => navs'[n].token = navTokenRef'[p]
       /\ accepted = {} => activeSearchTermRef'[p] = activeSearchTermRef[p]
       /\ (accepted = {} /\ Calling(p) # {}) =>
            \A n \in InFlight(p) \ Calling(p) :
              /\ navs'[n] = navs[n]
              /\ navs'[n].token = navTokenRef'[p]
              /\ pendingTargetRef'[p] = pendingTargetRef[p]

\* a step in which no navigation moves leaves the tokens and the active
\* terms; any other step counts the calls it makes
C38_Step ==
  IF navs' = navs
  THEN navTokenRef' = navTokenRef /\ activeSearchTermRef' = activeSearchTermRef
  ELSE C38_Calls

\* C38: the navigation token of a list goes up by exactly one for each call
\* of goToMatchImpl that passes the guard and never goes down; a call the
\* guard rejects (empty data, empty term, index below 1) takes no token and
\* leaves the navigation in flight on the list current.
C38_TokenCounts == [][C38_Step]_vars

\* a navigation waits on a list with the current token 1, and a later
\* request with index 0 was rejected by every list
C38_Witness ==
  \E n, m \in 1..Len(navs) :
    /\ n < m
    /\ navs[n].status = "wait"
    /\ navs[n].panel # 0
    /\ navs[n].token = 1
    /\ navTokenRef[navs[n].panel] = 1
    /\ navs[m].k = 0
    /\ navs[m].term # << >>
    /\ navs[m].status = "notfound"
    /\ navs[m].panel = 0

====
